---- MODULE Spec2Model ----
(***************************************************************************)
(* Medicare price calculator (2025 physician fee schedule).                *)
(*                                                                         *)
(* Text values are TLA+ strings; a character is a string of length one.    *)
(* Python's str methods and the regular expressions the calculator uses    *)
(* are written out as operators on strings.                                *)
(***************************************************************************)
EXTENDS Integers, Sequences, FiniteSets, TLC

(***************************************************************************)
(* Python str primitives                                                   *)
(***************************************************************************)
At(s, i) == SubSeq(s, i, i)

LowerLetters == "abcdefghijklmnopqrstuvwxyz"
UpperLetters == "ABCDEFGHIJKLMNOPQRSTUVWXYZ"
Digits == "0123456789"

\* the characters Python's str.strip() and the regex class \s remove
Whitespace == {" ", "\n", "\t"}

RECURSIVE IndexIn(_, _, _)
IndexIn(c, s, i) ==
    IF i > Len(s) THEN 0
    ELSE IF At(s, i) = c THEN i ELSE IndexIn(c, s, i + 1)

CharsOf(s) == {At(s, i) : i \in 1..Len(s)}
UpperLetterSet == CharsOf(UpperLetters)
LowerLetterSet == CharsOf(LowerLetters)
DigitSet == CharsOf(Digits)

IsUpperLetter(c) == c \in UpperLetterSet
IsLowerLetter(c) == c \in LowerLetterSet
IsDigitChar(c) == c \in DigitSet
\* \w of Python's re module, on the characters the model uses
IsWordChar(c) == IsUpperLetter(c) \/ IsLowerLetter(c) \/ IsDigitChar(c) \/ c = "_"

\* str.upper() and str.lower() on one character
ToUpper == [c \in LowerLetterSet |-> At(UpperLetters, IndexIn(c, LowerLetters, 1))]
ToLower == [c \in UpperLetterSet |-> At(LowerLetters, IndexIn(c, UpperLetters, 1))]
UpperChar(c) == IF c \in LowerLetterSet THEN ToUpper[c] ELSE c
LowerChar(c) == IF c \in UpperLetterSet THEN ToLower[c] ELSE c

\* "".join(pieces[lo..hi]), halving the range so that a long text nests little
RECURSIVE ConcatRange(_, _, _)
ConcatRange(pieces, lo, hi) ==
    IF lo > hi THEN ""
    ELSE IF lo = hi THEN pieces[lo]
    ELSE ConcatRange(pieces, lo, (lo + hi) \div 2)
         \o ConcatRange(pieces, ((lo + hi) \div 2) + 1, hi)

StrUpper(s) == ConcatRange([i \in 1..Len(s) |-> UpperChar(At(s, i))], 1, Len(s))

StartsWith(s, p) == Len(p) <= Len(s) /\ SubSeq(s, 1, Len(p)) = p
EndsWith(s, p) == Len(p) <= Len(s) /\ SubSeq(s, Len(s) - Len(p) + 1, Len(s)) = p

\* str.find: the first index (1-based) at or after i where p occurs, 0 if none
StrFind(s, p, i) ==
    LET hits == {k \in i..(Len(s) - Len(p) + 1) : SubSeq(s, k, k + Len(p) - 1) = p}
    IN  IF hits = {} THEN 0 ELSE CHOOSE k \in hits : \A j \in hits : k <= j

StrContains(s, p) == StrFind(s, p, 1) > 0

\* str.replace(old, new): non-overlapping occurrences, left to right
RECURSIVE StrReplace(_, _, _)
StrReplace(s, old, new) ==
    LET k == StrFind(s, old, 1)
    IN  IF k = 0 THEN s
        ELSE SubSeq(s, 1, k - 1) \o new
             \o StrReplace(SubSeq(s, k + Len(old), Len(s)), old, new)

RECURSIVE LStrip(_)
LStrip(s) ==
    IF s /= "" /\ At(s, 1) \in Whitespace THEN LStrip(SubSeq(s, 2, Len(s))) ELSE s

RECURSIVE RStrip(_)
RStrip(s) ==
    IF s /= "" /\ At(s, Len(s)) \in Whitespace
    THEN RStrip(SubSeq(s, 1, Len(s) - 1)) ELSE s

StrStrip(s) == LStrip(RStrip(s))

\* str.split(sep) for a one-character separator: a sequence of strings
RECURSIVE StrSplit(_, _)
StrSplit(s, sep) ==
    LET k == StrFind(s, sep, 1)
    IN  IF k = 0 THEN <<s>>
        ELSE <<SubSeq(s, 1, k - 1)>> \o StrSplit(SubSeq(s, k + 1, Len(s)), sep)

\* re.split(r"[\/,&]", s): split on any character of seps
RECURSIVE ReSplitAny(_, _, _)
ReSplitAny(s, seps, i) ==
    LET hits == {k \in i..Len(s) : At(s, k) \in seps}
        first == CHOOSE k \in hits : \A j \in hits : k <= j
    IN  IF hits = {} THEN <<s>>
        ELSE <<SubSeq(s, 1, first - 1)>> \o ReSplitAny(SubSeq(s, first + 1, Len(s)), seps, 1)

\* re.sub(r"\s+", " ", s): every run of whitespace becomes one space
CollapseWhitespace(s) ==
    ConcatRange([i \in 1..Len(s) |->
                    IF At(s, i) \notin Whitespace THEN At(s, i)
                    ELSE IF i > 1 /\ At(s, i - 1) \in Whitespace THEN ""
                    ELSE " "], 1, Len(s))

\* str.zfill(width) for a string without sign
RECURSIVE ZFill(_, _)
ZFill(s, width) == IF Len(s) >= width THEN s ELSE ZFill("0" \o s, width)

\* str.isdigit(): non-empty and every character a digit
AllDigits(s) == \A i \in 1..Len(s) : IsDigitChar(At(s, i))

\* isdigit that accepts the empty text
StrIsDigit_or_empty(s) == AllDigits(s)

StrIsDigit(s) == s /= "" /\ AllDigits(s)

(***************************************************************************)
(* Name normalizers                                                        *)
(***************************************************************************)
\* A Python object that may or may not be a str: pandas gives the float nan
\* for a missing cell.  s is the text (str(obj) for a non-str).
PyStr(s) == [isstr |-> TRUE, s |-> s]
PyNaN == [isstr |-> FALSE, s |-> "nan"]

\* U+2019 (right single quotation mark) cannot be written in a module; the
\* tilde, which no text of the model contains, stands for it.
CurlyApostrophe == "~"

_normalize_state_name(name) == CollapseWhitespace(StrUpper(StrStrip(name)))

suffixes ==
    << " COUNTY EQUIVALENTS", " COUNTY", " COUNTIES", " PARISH", " PARISHES",
       " MUNICIPIO", " MUNICIPIOS", " MUNICIPALITY", " CITY", " BOROUGH",
       " CENSUS AREA", " ISLANDS", " ISLAND" >>

\* the suffix loop with a break: only the first suffix that matches is removed
RECURSIVE StripSuffixes_first_only(_, _)
StripSuffixes_first_only(value, i) ==
    IF i > Len(suffixes) THEN value
    ELSE IF EndsWith(value, suffixes[i])
         THEN SubSeq(value, 1, Len(value) - Len(suffixes[i]))
         ELSE StripSuffixes_first_only(value, i + 1)

\* for suffix in suffixes: if value.endswith(suffix): value = value[:-len(suffix)]
RECURSIVE StripSuffixes(_, _)
StripSuffixes(value, i) ==
    IF i > Len(suffixes) THEN value
    ELSE IF EndsWith(value, suffixes[i])
         THEN StripSuffixes(SubSeq(value, 1, Len(value) - Len(suffixes[i])), i + 1)
         ELSE StripSuffixes(value, i + 1)

IsKeyChar(c) == IsUpperLetter(c) \/ IsDigitChar(c) \/ c = " "

\* re.sub(r"[^A-Z0-9 ]+", " ", value)
SubNonKeyChars(s) ==
    ConcatRange([i \in 1..Len(s) |->
                    IF IsKeyChar(At(s, i)) THEN At(s, i)
                    ELSE IF i > 1 /\ ~IsKeyChar(At(s, i - 1)) THEN ""
                    ELSE " "], 1, Len(s))

\* the replacements of lines 143-151, before the suffix loop
FoldVariants(text) ==
    LET v1 == StrUpper(text)
        v2 == StrReplace(v1, "SAINTE", "STE")
        v3 == StrReplace(v2, "SAINT", "ST")
        v4 == StrReplace(v3, "ST.", "ST")
        v5 == StrReplace(v4, "CNTY", "COUNTY")
        v6 == StrReplace(v5, "'", "")
        v7 == StrReplace(v6, ".", " ")
    IN  StrReplace(StrReplace(v7, "-", " "), CurlyApostrophe, "")

\* lines 170-172: the dense key of what the suffix loop leaves
\* the key with its spaces left in
DenseKey_keeps_spaces(value) ==
    StrStrip(CollapseWhitespace(SubNonKeyChars(value)))

DenseKey(value) ==
    StrReplace(StrStrip(CollapseWhitespace(SubNonKeyChars(value))), " ", "")

_normalize_county_name(name) ==
    IF ~name.isstr THEN ""
    ELSE DenseKey(StripSuffixes(FoldVariants(name.s), 1))

(***************************************************************************)
(* _normalize_locality_number: str(int(float(str(value).strip())))         *)
(* float() is modelled on the grammar [sign] digits [. digits], inf and    *)
(* nan; every other text is one float() rejects with ValueError (the       *)
(* model's texts use no exponent and no digit-group underscore).           *)
(***************************************************************************)
RECURSIVE StrToNat(_, _)
StrToNat(s, acc) ==
    IF s = "" THEN acc
    ELSE StrToNat(SubSeq(s, 2, Len(s)), 10 * acc + (IndexIn(At(s, 1), Digits, 1) - 1))

RECURSIVE NatToStr(_)
NatToStr(n) ==
    IF n < 10 THEN At(Digits, n + 1)
    ELSE NatToStr(n \div 10) \o At(Digits, (n % 10) + 1)

StrLower(s) == ConcatRange([i \in 1..Len(s) |-> LowerChar(At(s, i))], 1, Len(s))

\* float(text): [kind |-> "num", neg, int] with int the integer part,
\* "inf", "nan", or "ValueError"
PyFloat(text) ==
    LET t == StrStrip(text)
        signed == t /= "" /\ At(t, 1) \in {"+", "-"}
        neg == t /= "" /\ At(t, 1) = "-"
        body == IF signed THEN SubSeq(t, 2, Len(t)) ELSE t
        dot == StrFind(body, ".", 1)
        ip == IF dot = 0 THEN body ELSE SubSeq(body, 1, dot - 1)
        fp == IF dot = 0 THEN "" ELSE SubSeq(body, dot + 1, Len(body))
    IN  IF StrLower(body) \in {"inf", "infinity"} THEN [kind |-> "inf"]
        ELSE IF StrLower(body) = "nan" THEN [kind |-> "nan"]
        ELSE IF AllDigits(ip) /\ AllDigits(fp) /\ (ip /= "" \/ fp /= "")
             THEN [kind |-> "num", neg |-> neg, int |-> StrToNat(ip, 0)]
             ELSE [kind |-> "ValueError"]

\* a normalization that trims the text of a number and leaves it as written
_normalize_locality_number_as_written(value) ==
    LET v == StrStrip(value.s)
        f == PyFloat(v)
    IN  IF v = "" \/ StrLower(v) = "nan" THEN [ok |-> FALSE, err |-> "ValueError"]
        ELSE IF f.kind = "inf" THEN [ok |-> FALSE, err |-> "OverflowError"]
        ELSE IF f.kind \in {"nan", "ValueError"} THEN [ok |-> FALSE, err |-> "ValueError"]
        ELSE [ok |-> TRUE, val |-> v]

\* the result is [ok |-> TRUE, val |-> text] or [ok |-> FALSE, err |-> kind];
\* int(inf) raises OverflowError, int(nan) raises ValueError
_normalize_locality_number(value) ==
    LET v == StrStrip(value.s)
        f == PyFloat(v)
    IN  IF v = "" \/ StrLower(v) = "nan" THEN [ok |-> FALSE, err |-> "ValueError"]
        ELSE IF f.kind = "inf" THEN [ok |-> FALSE, err |-> "OverflowError"]
        ELSE IF f.kind \in {"nan", "ValueError"} THEN [ok |-> FALSE, err |-> "ValueError"]
        ELSE [ok |-> TRUE,
              val |-> (IF f.neg /\ f.int > 0 THEN "-" ELSE "") \o NatToStr(f.int)]

(***************************************************************************)
(* County-text parser                                                      *)
(***************************************************************************)
\* the classifier with its first two tests in the other order
_classify_county_scope_equivalents_first(text) ==
    LET upper == StrUpper(text)
    IN  IF StrContains(upper, "ALL COUNTY EQUIVALENTS") THEN "all"
        ELSE IF StrContains(upper, "ALL OTHER COUNTIES") THEN "rest"
        ELSE IF StartsWith(upper, "ALL COUNTIES") /\ StrContains(upper, "EXCEPT") THEN "rest"
        ELSE IF StartsWith(upper, "ALL COUNTIES") THEN "all"
        ELSE IF StartsWith(upper, "ALL COUNTY") THEN "all"
        ELSE "specific"

_classify_county_scope(text) ==
    LET upper == StrUpper(text)
    IN  IF StrContains(upper, "ALL OTHER COUNTIES") THEN "rest"
        ELSE IF StrContains(upper, "ALL COUNTY EQUIVALENTS") THEN "all"
        ELSE IF StartsWith(upper, "ALL COUNTIES") /\ StrContains(upper, "EXCEPT") THEN "rest"
        ELSE IF StartsWith(upper, "ALL COUNTIES") THEN "all"
        ELSE IF StartsWith(upper, "ALL COUNTY") THEN "all"
        ELSE "specific"

\* the tokens of a sequence of strings, stripped, the empty ones dropped
RECURSIVE StripNonEmpty(_)
StripNonEmpty(parts) ==
    IF parts = <<>> THEN <<>>
    ELSE LET part == StrStrip(Head(parts))
         IN  (IF part /= "" THEN <<part>> ELSE <<>>) \o StripNonEmpty(Tail(parts))

RECURSIVE SegmentStateNames(_)
SegmentStateNames(tokens) ==
    IF tokens = <<>> THEN <<>>
    ELSE LET c1 == StrUpper(StrStrip(Head(tokens)))
             c2 == StrReplace(c1, "  ", " ")
             c3 == IF EndsWith(c2, " IN") THEN StrStrip(SubSeq(c2, 1, Len(c2) - 3)) ELSE c2
         IN  (IF c1 = "" THEN <<>> ELSE <<c3>>) \o SegmentStateNames(Tail(tokens))

_split_segment_states(segment_state_text) ==
    SegmentStateNames(ReSplitAny(segment_state_text, {"/", ",", "&"}, 1))

\* \b at position i of s (between s[i-1] and s[i])
WordBoundary(s, i) ==
    LET before == i > 1 /\ IsWordChar(At(s, i - 1))
        after == i <= Len(s) /\ IsWordChar(At(s, i))
    IN  before /= after

\* re.sub(r"\bAND\b", ",", text, flags=re.IGNORECASE)
RECURSIVE SubWordAnd(_, _)
SubWordAnd(text, i) ==
    LET hits == {k \in i..(Len(text) - 2) :
                    /\ StrUpper(SubSeq(text, k, k + 2)) = "AND"
                    /\ WordBoundary(text, k) /\ WordBoundary(text, k + 3)}
        first == CHOOSE k \in hits : \A j \in hits : k <= j
    IN  IF hits = {} THEN text
        ELSE SubWordAnd(SubSeq(text, 1, first - 1) \o "," \o SubSeq(text, first + 3, Len(text)),
                        first + 1)

_split_county_list(text) ==
    LET t1 == StrReplace(text, "\n", " ")
        t2 == StrReplace(t1, "/", ",")
        t3 == StrReplace(t2, "&", ",")
        t4 == SubWordAnd(t3, 1)
    IN  StripNonEmpty(StrSplit(t4, ","))

\* the character class [A-Z .'/&-]
IsStateTextChar(c) == IsUpperLetter(c) \/ c \in {" ", ".", "'", "/", "&", "-"}

AllStateTextChars(s) == \A i \in 1..Len(s) : IsStateTextChar(At(s, i))

\* re.search(r"\bIN ([A-Z .'/&-]+)$", upper): the start of the leftmost
\* match at or after i, 0 if there is none
SearchInStates(upper, i) ==
    LET hits == {k \in i..(Len(upper) - 3) :
                    /\ SubSeq(upper, k, k + 2) = "IN " /\ WordBoundary(upper, k)
                    /\ AllStateTextChars(SubSeq(upper, k + 3, Len(upper)))}
    IN  IF hits = {} THEN 0 ELSE CHOOSE k \in hits : \A j \in hits : k <= j

\* one segment, its pair kept when it has no county
ParseSegment_keeps_empty(segment, default_states) ==
    LET start == SearchInStates(StrUpper(segment), 1)
        state_text == SubSeq(segment, start + 3, Len(segment))
        found_states == IF start > 0 THEN _split_segment_states(state_text)
                        ELSE default_states
        working_segment == IF start > 0 THEN StrStrip(SubSeq(segment, 1, start - 1))
                           ELSE segment
        counties == _split_county_list(working_segment)
        segment_states == IF found_states = <<>> THEN default_states ELSE found_states
    IN  << [states |-> segment_states, counties |-> counties] >>

\* one segment: <<>> when it has no county, else <<[states, counties]>>
ParseSegment(segment, default_states) ==
    LET start == SearchInStates(StrUpper(segment), 1)
        state_text == SubSeq(segment, start + 3, Len(segment))
        found_states == IF start > 0 THEN _split_segment_states(state_text)
                        ELSE default_states
        working_segment == IF start > 0 THEN StrStrip(SubSeq(segment, 1, start - 1))
                           ELSE segment
        counties == _split_county_list(working_segment)
        segment_states == IF found_states = <<>> THEN default_states ELSE found_states
    IN  IF counties = <<>> THEN <<>>
        ELSE << [states |-> segment_states, counties |-> counties] >>

\* a parse in which the states of an override stay in force for the segments
\* after it
RECURSIVE ParseSegments_sticky(_, _)
ParseSegments_sticky(raw_segments, default_states) ==
    IF raw_segments = <<>> THEN <<>>
    ELSE LET parsed == ParseSegment(Head(raw_segments), default_states)
         IN  parsed \o ParseSegments_sticky(Tail(raw_segments),
                            IF parsed = <<>> THEN default_states ELSE parsed[1].states)

RECURSIVE ParseSegments(_, _)
ParseSegments(raw_segments, default_states) ==
    IF raw_segments = <<>> THEN <<>>
    ELSE ParseSegment(Head(raw_segments), default_states)
         \o ParseSegments(Tail(raw_segments), default_states)

_parse_county_segments(counties_text, default_states) ==
    LET sanitized == StrReplace(counties_text, "\n", " ")
        segs == StripNonEmpty(StrSplit(sanitized, ";"))
        raw_segments == IF segs = <<>> THEN <<StrStrip(sanitized)>> ELSE segs
    IN  ParseSegments(raw_segments, default_states)

(***************************************************************************)
(* State table                                                             *)
(***************************************************************************)
\* the dict as its items, in source order: <<abbreviation, name>>
STATE_ABBR_TO_NAME ==
    << <<"AL", "ALABAMA">>, <<"AK", "ALASKA">>, <<"AZ", "ARIZONA">>,
       <<"AR", "ARKANSAS">>, <<"CA", "CALIFORNIA">>, <<"CO", "COLORADO">>,
       <<"CT", "CONNECTICUT">>, <<"DC", "DISTRICT OF COLUMBIA">>, <<"DE", "DELAWARE">>,
       <<"FL", "FLORIDA">>, <<"GA", "GEORGIA">>, <<"HI", "HAWAII">>,
       <<"IA", "IOWA">>, <<"ID", "IDAHO">>, <<"IL", "ILLINOIS">>,
       <<"IN", "INDIANA">>, <<"KS", "KANSAS">>, <<"KY", "KENTUCKY">>,
       <<"LA", "LOUISIANA">>, <<"MA", "MASSACHUSETTS">>, <<"MD", "MARYLAND">>,
       <<"ME", "MAINE">>, <<"MI", "MICHIGAN">>, <<"MN", "MINNESOTA">>,
       <<"MO", "MISSOURI">>, <<"MS", "MISSISSIPPI">>, <<"MT", "MONTANA">>,
       <<"NC", "NORTH CAROLINA">>, <<"ND", "NORTH DAKOTA">>, <<"NE", "NEBRASKA">>,
       <<"NH", "NEW HAMPSHIRE">>, <<"NJ", "NEW JERSEY">>, <<"NM", "NEW MEXICO">>,
       <<"NV", "NEVADA">>, <<"NY", "NEW YORK">>, <<"OH", "OHIO">>,
       <<"OK", "OKLAHOMA">>, <<"OR", "OREGON">>, <<"PA", "PENNSYLVANIA">>,
       <<"PR", "PUERTO RICO">>, <<"RI", "RHODE ISLAND">>, <<"SC", "SOUTH CAROLINA">>,
       <<"SD", "SOUTH DAKOTA">>, <<"TN", "TENNESSEE">>, <<"TX", "TEXAS">>,
       <<"UT", "UTAH">>, <<"VA", "VIRGINIA">>, <<"VI", "VIRGIN ISLANDS">>,
       <<"VT", "VERMONT">>, <<"WA", "WASHINGTON">>, <<"WI", "WISCONSIN">>,
       <<"WV", "WEST VIRGINIA">>, <<"WY", "WYOMING">>, <<"GU", "GUAM">>,
       <<"MP", "NORTHERN MARIANA ISLANDS">> >>

\* dict.get over a sequence of <<key, value>> items: <<value>> or <<>> (None)
RECURSIVE ItemsGet(_, _, _)
ItemsGet(items, key, i) ==
    IF i > Len(items) THEN <<>>
    ELSE IF items[i][1] = key THEN <<items[i][2]>>
    ELSE ItemsGet(items, key, i + 1)

\* {v: k for k, v in STATE_ABBR_TO_NAME.items()}
STATE_NAME_TO_ABBR ==
    [i \in 1..Len(STATE_ABBR_TO_NAME) |->
        <<STATE_ABBR_TO_NAME[i][2], STATE_ABBR_TO_NAME[i][1]>>]

(***************************************************************************)
(* LocalityLookup                                                          *)
(*   state_specific : state name -> items <<county key, entry>> in         *)
(*                    insertion order (a dict keeps the position of a key  *)
(*                    that is overwritten)                                 *)
(*   state_rest, state_all : state name -> entry                           *)
(***************************************************************************)
LocalityEntry(state_name, state_abbr, locality_number, locality_name, mac) ==
    [state_name |-> state_name, state_abbr |-> state_abbr,
     locality_number |-> locality_number, locality_name |-> locality_name,
     mac |-> mac]

\* d[key] = value on a function whose domain is the set of keys
DictSet(d, key, value) ==
    [k \in DOMAIN d \cup {key} |-> IF k = key THEN value ELSE d[k]]

\* an assignment that leaves the value of a key already present
RECURSIVE ItemsSet_keeps_first(_, _, _)
ItemsSet_keeps_first(items, key, value) ==
    IF items = <<>> THEN << <<key, value>> >>
    ELSE IF Head(items)[1] = key THEN items
    ELSE <<Head(items)>> \o ItemsSet_keeps_first(Tail(items), key, value)

\* items[key] = value on an insertion-ordered dict
RECURSIVE ItemsSet(_, _, _)
ItemsSet(items, key, value) ==
    IF items = <<>> THEN << <<key, value>> >>
    ELSE IF Head(items)[1] = key THEN << <<key, value>> >> \o Tail(items)
    ELSE <<Head(items)>> \o ItemsSet(Tail(items), key, value)

\* self.state_specific[state_name][county_key] = entry  (a defaultdict(dict))
SpecificSet(specific, state_name, county_key, entry) ==
    LET inner == IF state_name \in DOMAIN specific THEN specific[state_name] ELSE <<>>
    IN  DictSet(specific, state_name, ItemsSet(inner, county_key, entry))

\* the states of a state label: split on "/", blank parts dropped, normalized
RECURSIVE RowStates(_)
RowStates(parts) ==
    IF parts = <<>> THEN <<>>
    ELSE (IF StrStrip(Head(parts)) /= "" THEN <<_normalize_state_name(Head(parts))>> ELSE <<>>)
         \o RowStates(Tail(parts))

\* rest / all scope: one entry per known state of the row
RECURSIVE RegisterFallback(_, _, _, _, _)
RegisterFallback(target, row_states, locality_number, locality_name, mac) ==
    IF row_states = <<>> THEN target
    ELSE LET state_name == Head(row_states)
             abbr == ItemsGet(STATE_NAME_TO_ABBR, state_name, 1)
             next == IF abbr = <<>> THEN target
                     ELSE DictSet(target, state_name,
                            LocalityEntry(state_name, abbr[1], locality_number,
                                          locality_name, mac))
         IN  RegisterFallback(next, Tail(row_states), locality_number, locality_name, mac)

\* the loop of lines 297-301 without the test of line 299: a county whose
\* key is empty is registered
RECURSIVE RegisterCounties_keeps_empty(_, _, _, _)
RegisterCounties_keeps_empty(specific, state_name, counties, entry) ==
    IF counties = <<>> THEN specific
    ELSE LET county_key == _normalize_county_name(PyStr(Head(counties)))
             next == SpecificSet(specific, state_name, county_key, entry)
         IN  CHOOSE done \in {RegisterCounties_keeps_empty(assigned, state_name,
                                                           Tail(counties), entry) :
                                 assigned \in {next}} : TRUE

\* the loop of lines 297-301; each assignment is carried out before the next
\* county is looked at (the dict after it is bound as a value, not passed on
\* as an unevaluated expression)
RECURSIVE RegisterCounties(_, _, _, _)
RegisterCounties(specific, state_name, counties, entry) ==
    IF counties = <<>> THEN specific
    ELSE LET county_key == _normalize_county_name(PyStr(Head(counties)))
             next == IF county_key = "" THEN specific
                     ELSE SpecificSet(specific, state_name, county_key, entry)
         IN  CHOOSE done \in {RegisterCounties(assigned, state_name, Tail(counties), entry) :
                                 assigned \in {next}} : TRUE

RECURSIVE RegisterSegmentStates(_, _, _, _, _, _)
RegisterSegmentStates(specific, segment_states, counties, locality_number, locality_name, mac) ==
    IF segment_states = <<>> THEN specific
    ELSE LET state_name == _normalize_state_name(Head(segment_states))
             abbr == ItemsGet(STATE_NAME_TO_ABBR, state_name, 1)
             next == IF abbr = <<>> THEN specific
                     ELSE RegisterCounties(specific, state_name, counties,
                            LocalityEntry(state_name, abbr[1], locality_number,
                                          locality_name, mac))
         IN  CHOOSE done \in {RegisterSegmentStates(registered, Tail(segment_states),
                                     counties, locality_number, locality_name, mac) :
                                 registered \in {next}} : TRUE

RECURSIVE RegisterSegments(_, _, _, _, _)
RegisterSegments(specific, segments, locality_number, locality_name, mac) ==
    IF segments = <<>> THEN specific
    ELSE CHOOSE done \in
            {RegisterSegments(registered, Tail(segments), locality_number, locality_name, mac) :
                registered \in {RegisterSegmentStates(specific, Head(segments).states,
                                                       Head(segments).counties,
                                                       locality_number, locality_name, mac)}} :
            TRUE

\* (cell or "").strip(): a missing cell is None in a database row ("" then)
\* and the float nan in a DataFrame, which has no strip (AttributeError)
CellIsNaN(cell) == ~cell.isstr /\ cell.s = "nan"
CellText(cell) == IF cell.isstr THEN StrStrip(cell.s) ELSE ""

\* an iteration that registers the counties a rest or all text names as well
BuildRow_mixed_scopes(lookup, row) ==
    LET number == _normalize_locality_number(row.LocalityNumber)
        locality_name == CellText(row.LocalityName)
        mac == CellText(row.MAC)
        state_field == CellText(row.StateLabel)
        row_states == RowStates(StrSplit(state_field, "/"))
        counties_text == CellText(row.Counties)
        scope == _classify_county_scope(counties_text)
        named == RegisterSegments(lookup.state_specific,
                                  _parse_county_segments(counties_text, row_states),
                                  number.val, locality_name, mac)
    IN  IF ~number.ok /\ number.err = "ValueError" THEN lookup
        ELSE IF ~number.ok THEN [lookup EXCEPT !.error = number.err]
        ELSE IF \E c \in {row.LocalityName, row.MAC, row.StateLabel} : CellIsNaN(c)
             THEN [lookup EXCEPT !.error = "AttributeError"]
        ELSE IF state_field = "" THEN lookup
        ELSE IF CellIsNaN(row.Counties) THEN [lookup EXCEPT !.error = "AttributeError"]
        ELSE IF counties_text = "" THEN lookup
        ELSE IF scope = "rest"
             THEN [lookup EXCEPT !.state_specific = named,
                                 !.state_rest =
                      RegisterFallback(@, row_states, number.val, locality_name, mac)]
        ELSE IF scope = "all"
             THEN [lookup EXCEPT !.state_specific = named,
                                 !.state_all =
                      RegisterFallback(@, row_states, number.val, locality_name, mac)]
        ELSE [lookup EXCEPT !.state_specific = named]

\* one iteration of the loop of _build over a row; lookup.error is set by an
\* exception the loop does not catch
BuildRow(lookup, row) ==
    LET number == _normalize_locality_number(row.LocalityNumber)
        locality_name == CellText(row.LocalityName)
        mac == CellText(row.MAC)
        state_field == CellText(row.StateLabel)
        row_states == RowStates(StrSplit(state_field, "/"))
        counties_text == CellText(row.Counties)
        scope == _classify_county_scope(counties_text)
    IN  IF ~number.ok /\ number.err = "ValueError" THEN lookup
        ELSE IF ~number.ok THEN [lookup EXCEPT !.error = number.err]
        ELSE IF \E c \in {row.LocalityName, row.MAC, row.StateLabel} : CellIsNaN(c)
             THEN [lookup EXCEPT !.error = "AttributeError"]
        ELSE IF state_field = "" THEN lookup
        ELSE IF CellIsNaN(row.Counties) THEN [lookup EXCEPT !.error = "AttributeError"]
        ELSE IF counties_text = "" THEN lookup
        ELSE IF scope = "rest"
             THEN [lookup EXCEPT !.state_rest =
                      RegisterFallback(@, row_states, number.val, locality_name, mac)]
        ELSE IF scope = "all"
             THEN [lookup EXCEPT !.state_all =
                      RegisterFallback(@, row_states, number.val, locality_name, mac)]
        ELSE [lookup EXCEPT !.state_specific =
                 RegisterSegments(@, _parse_county_segments(counties_text, row_states),
                                  number.val, locality_name, mac)]

RECURSIVE BuildRows(_, _)
BuildRows(lookup, rows) ==
    IF rows = <<>> \/ lookup.error /= "" THEN lookup
    ELSE BuildRows(BuildRow(lookup, Head(rows)), Tail(rows))

\* LocalityLookup(df): __init__ and _build
LocalityLookup(df) ==
    BuildRows([state_specific |-> <<>>, state_rest |-> <<>>, state_all |-> <<>>,
               error |-> ""], df)

(***************************************************************************)
(* difflib.SequenceMatcher(None, a, b).ratio()                             *)
(* No junk; the autojunk heuristic needs 200 characters and never applies. *)
(***************************************************************************)
\* a text as the sequence of its characters
Chars(s) == [i \in 1..Len(s) |-> At(s, i)]

\* the length of the common run of a[i..ahi] and b[j..bhi] from their starts
RECURSIVE RunLength(_, _, _, _, _, _)
RunLength(a, b, i, ahi, j, bhi) ==
    IF i <= ahi /\ j <= bhi /\ a[i] = b[j]
    THEN 1 + RunLength(a, b, i + 1, ahi, j + 1, bhi)
    ELSE 0

\* find_longest_match over a[alo..ahi], b[blo..bhi]: the longest block; of
\* those the one starting earliest in a, then earliest in b.  The scan keeps
\* the first block that is strictly longer than the best so far.
RECURSIVE ScanRow(_, _, _, _, _, _, _)
ScanRow(a, b, ahi, bhi, i, j, best) ==
    IF j > bhi THEN best
    ELSE LET k == RunLength(a, b, i, ahi, j, bhi)
         IN  IF k > best.size
             THEN ScanRow(a, b, ahi, bhi, i, j + 1, [i |-> i, j |-> j, size |-> k])
             ELSE ScanRow(a, b, ahi, bhi, i, j + 1, best)

RECURSIVE ScanLongest(_, _, _, _, _, _, _)
ScanLongest(a, b, ahi, blo, bhi, i, best) ==
    IF i > ahi THEN best
    ELSE ScanLongest(a, b, ahi, blo, bhi, i + 1, ScanRow(a, b, ahi, bhi, i, blo, best))

find_longest_match(a, b, alo, ahi, blo, bhi) ==
    ScanLongest(a, b, ahi, blo, bhi, alo, [i |-> alo, j |-> blo, size |-> 0])

\* get_matching_blocks: the total size of the blocks, found by recursion to the
\* left and to the right of the longest match
RECURSIVE MatchedChars(_, _, _, _, _, _)
MatchedChars(a, b, alo, ahi, blo, bhi) ==
    IF alo > ahi \/ blo > bhi THEN 0
    ELSE LET m == find_longest_match(a, b, alo, ahi, blo, bhi)
         IN  IF m.size = 0 THEN 0
             ELSE m.size
                  + MatchedChars(a, b, alo, m.i - 1, blo, m.j - 1)
                  + MatchedChars(a, b, m.i + m.size, ahi, m.j + m.size, bhi)

\* ratio() = 2.0 * matches / (len(a) + len(b)), and 1.0 when both are empty.
\* The float quotient is kept as the fraction num/den: the quotients of two
\* pairs of small integers compare as floats exactly as the fractions do.
ratio(a, b) ==
    IF Len(a) + Len(b) = 0 THEN [num |-> 1, den |-> 1]
    ELSE [num |-> 2 * MatchedChars(Chars(a), Chars(b), 1, Len(a), 1, Len(b)),
          den |-> Len(a) + Len(b)]

ScoreGreater(x, y) == x.num * y.den > y.num * x.den
\* score >= 0.9
FUZZY_THRESHOLD_NUM == 9
FUZZY_THRESHOLD_DEN == 10
ScoreAtLeastThreshold(x) ==
    x.num * FUZZY_THRESHOLD_DEN >= FUZZY_THRESHOLD_NUM * x.den

\* FuzzyScan with "score >= best_score": of equal scores the last one wins
RECURSIVE FuzzyScan_last_wins(_, _, _)
FuzzyScan_last_wins(candidates, target, best) ==
    IF candidates = <<>> THEN best
    ELSE LET score == ratio(Head(candidates)[1], target)
         IN  FuzzyScan_last_wins(Tail(candidates), target,
                       IF ~ScoreGreater(best.best_score, score)
                       THEN [best_score |-> score, best_entry |-> <<Head(candidates)[2]>>]
                       ELSE best)

\* the loop of _fuzzy_match over candidates.items()
RECURSIVE FuzzyScan(_, _, _)
FuzzyScan(candidates, target, best) ==
    IF candidates = <<>> THEN best
    ELSE LET score == ratio(Head(candidates)[1], target)
         IN  FuzzyScan(Tail(candidates), target,
                       IF ScoreGreater(score, best.best_score)
                       THEN [best_score |-> score, best_entry |-> <<Head(candidates)[2]>>]
                       ELSE best)

\* dict.get(state_name, {}) on state_specific
SpecificOf(lookup, state_name) ==
    IF state_name \in DOMAIN lookup.state_specific
    THEN lookup.state_specific[state_name] ELSE <<>>

\* _fuzzy_match with the threshold 0.8
_fuzzy_match_threshold_080(lookup, state_name, target) ==
    LET best == FuzzyScan(SpecificOf(lookup, state_name), target,
                          [best_score |-> [num |-> 0, den |-> 1], best_entry |-> <<>>])
    IN  IF 10 * best.best_score.num >= 8 * best.best_score.den
        THEN best.best_entry ELSE <<>>

\* <<entry>> or <<>> (None)
_fuzzy_match(lookup, state_name, target) ==
    LET best == FuzzyScan(SpecificOf(lookup, state_name), target,
                          [best_score |-> [num |-> 0, den |-> 1], best_entry |-> <<>>])
    IN  IF ScoreAtLeastThreshold(best.best_score) THEN best.best_entry ELSE <<>>

\* self.state_specific[state_name] on the defaultdict: a read that inserts an
\* empty dict for a state that has none
AfterSpecificGet_subscript(lookup, state_name) ==
    IF state_name \in DOMAIN lookup.state_specific THEN lookup
    ELSE [lookup EXCEPT !.state_specific = DictSet(@, state_name, <<>>)]

\* the index after self.state_specific.get(state_name, {}): get does not
\* insert the default, on a defaultdict either
AfterSpecificGet(lookup, state_name) == lookup

\* a find that keeps what it found by fuzzy match or by a fallback under the
\* key it was asked for
AfterFind_memoized(lookup, state_abbr, county_name) ==
    LET got == ItemsGet(STATE_ABBR_TO_NAME, state_abbr, 1)
        county_key == _normalize_county_name(county_name)
        exact == ItemsGet(SpecificOf(lookup, got[1]), county_key, 1)
        best_entry == _fuzzy_match(lookup, got[1], county_key)
        fallback == IF got[1] \in DOMAIN lookup.state_rest THEN <<lookup.state_rest[got[1]]>>
                    ELSE IF got[1] \in DOMAIN lookup.state_all THEN <<lookup.state_all[got[1]]>>
                    ELSE <<>>
        found == IF best_entry /= <<>> THEN best_entry ELSE fallback
    IN  IF got = <<>> \/ exact /= <<>> \/ found = <<>> THEN lookup
        ELSE [lookup EXCEPT !.state_specific = SpecificSet(@, got[1], county_key, found[1])]

\* the index after find: the reads of lines 308 and 322; nothing is assigned
AfterFind(lookup, state_abbr, county_name) ==
    LET got == ItemsGet(STATE_ABBR_TO_NAME, state_abbr, 1)
        read == AfterSpecificGet(lookup, got[1])
        exact == ItemsGet(SpecificOf(lookup, got[1]), _normalize_county_name(county_name), 1)
    IN  IF got = <<>> THEN lookup
        ELSE IF exact /= <<>> THEN read
        ELSE AfterSpecificGet(read, got[1])

\* find with a key made without folding the variants of a name (SAINT, CNTY)
find_by_unfolded_name(lookup, state_abbr, county_name) ==
    LET got == ItemsGet(STATE_ABBR_TO_NAME, state_abbr, 1)
        state_name == got[1]
        county_key == IF county_name.isstr
                      THEN DenseKey(StripSuffixes(StrUpper(StrStrip(county_name.s)), 1))
                      ELSE ""
        specific == SpecificOf(lookup, state_name)
        exact == ItemsGet(specific, county_key, 1)
        best_entry == _fuzzy_match(lookup, state_name, county_key)
    IN  IF got = <<>> THEN [via |-> "UnsupportedState", entry |-> <<>>]
        ELSE IF exact /= <<>> THEN [via |-> "exact", entry |-> exact]
        ELSE IF best_entry /= <<>> THEN [via |-> "fuzzy", entry |-> best_entry]
        ELSE IF state_name \in DOMAIN lookup.state_rest
             THEN [via |-> "rest", entry |-> <<lookup.state_rest[state_name]>>]
        ELSE IF state_name \in DOMAIN lookup.state_all
             THEN [via |-> "all", entry |-> <<lookup.state_all[state_name]>>]
        ELSE [via |-> "NoLocalityMapping", entry |-> <<>>]

\* find with state_all consulted before state_rest
find_all_before_rest(lookup, state_abbr, county_name) ==
    LET got == ItemsGet(STATE_ABBR_TO_NAME, state_abbr, 1)
        state_name == got[1]
        county_key == _normalize_county_name(county_name)
        specific == SpecificOf(lookup, state_name)
        exact == ItemsGet(specific, county_key, 1)
        best_entry == _fuzzy_match(lookup, state_name, county_key)
    IN  IF got = <<>> THEN [via |-> "UnsupportedState", entry |-> <<>>]
        ELSE IF exact /= <<>> THEN [via |-> "exact", entry |-> exact]
        ELSE IF best_entry /= <<>> THEN [via |-> "fuzzy", entry |-> best_entry]
        ELSE IF state_name \in DOMAIN lookup.state_all
             THEN [via |-> "all", entry |-> <<lookup.state_all[state_name]>>]
        ELSE IF state_name \in DOMAIN lookup.state_rest
             THEN [via |-> "rest", entry |-> <<lookup.state_rest[state_name]>>]
        ELSE [via |-> "NoLocalityMapping", entry |-> <<>>]

\* find that indexes state_all without the "in" test: a KeyError when the
\* state has no all entry
find_all_unchecked(lookup, state_abbr, county_name) ==
    LET got == ItemsGet(STATE_ABBR_TO_NAME, state_abbr, 1)
        state_name == got[1]
        county_key == _normalize_county_name(county_name)
        specific == SpecificOf(lookup, state_name)
        exact == ItemsGet(specific, county_key, 1)
        best_entry == _fuzzy_match(lookup, state_name, county_key)
    IN  IF got = <<>> THEN [via |-> "UnsupportedState", entry |-> <<>>]
        ELSE IF exact /= <<>> THEN [via |-> "exact", entry |-> exact]
        ELSE IF best_entry /= <<>> THEN [via |-> "fuzzy", entry |-> best_entry]
        ELSE IF state_name \in DOMAIN lookup.state_rest
             THEN [via |-> "rest", entry |-> <<lookup.state_rest[state_name]>>]
        ELSE IF state_name \in DOMAIN lookup.state_all
             THEN [via |-> "all", entry |-> <<lookup.state_all[state_name]>>]
        ELSE [via |-> "KeyError", entry |-> <<>>]

\* find without the test of the abbreviation: an unknown abbreviation is
\* looked up under its own text and ends as a state without entries
find_state_unchecked(lookup, state_abbr, county_name) ==
    LET got == ItemsGet(STATE_ABBR_TO_NAME, state_abbr, 1)
        state_name == IF got = <<>> THEN state_abbr ELSE got[1]
        county_key == _normalize_county_name(county_name)
        specific == SpecificOf(lookup, state_name)
        exact == ItemsGet(specific, county_key, 1)
        best_entry == _fuzzy_match(lookup, state_name, county_key)
    IN  IF exact /= <<>> THEN [via |-> "exact", entry |-> exact]
        ELSE IF best_entry /= <<>> THEN [via |-> "fuzzy", entry |-> best_entry]
        ELSE IF state_name \in DOMAIN lookup.state_rest
             THEN [via |-> "rest", entry |-> <<lookup.state_rest[state_name]>>]
        ELSE IF state_name \in DOMAIN lookup.state_all
             THEN [via |-> "all", entry |-> <<lookup.state_all[state_name]>>]
        ELSE [via |-> "NoLocalityMapping", entry |-> <<>>]

\* find that ends on the all entry of any state when its own state has none
find_all_of_any_state(lookup, state_abbr, county_name) ==
    LET got == ItemsGet(STATE_ABBR_TO_NAME, state_abbr, 1)
        state_name == got[1]
        county_key == _normalize_county_name(county_name)
        specific == SpecificOf(lookup, state_name)
        exact == ItemsGet(specific, county_key, 1)
        best_entry == _fuzzy_match(lookup, state_name, county_key)
    IN  IF got = <<>> THEN [via |-> "UnsupportedState", entry |-> <<>>]
        ELSE IF exact /= <<>> THEN [via |-> "exact", entry |-> exact]
        ELSE IF best_entry /= <<>> THEN [via |-> "fuzzy", entry |-> best_entry]
        ELSE IF state_name \in DOMAIN lookup.state_rest
             THEN [via |-> "rest", entry |-> <<lookup.state_rest[state_name]>>]
        ELSE IF state_name \in DOMAIN lookup.state_all
             THEN [via |-> "all", entry |-> <<lookup.state_all[state_name]>>]
        ELSE IF DOMAIN lookup.state_all /= {}
             THEN [via |-> "all",
                   entry |-> <<lookup.state_all[CHOOSE s \in DOMAIN lookup.state_all : TRUE]>>]
        ELSE [via |-> "NoLocalityMapping", entry |-> <<>>]

\* find: [via, entry] where via names the return or raise statement reached
\* and entry is <<the entry returned>> or <<>>
find(lookup, state_abbr, county_name) ==
    LET got == ItemsGet(STATE_ABBR_TO_NAME, state_abbr, 1)
        state_name == got[1]
        county_key == _normalize_county_name(county_name)
        specific == SpecificOf(lookup, state_name)
        exact == ItemsGet(specific, county_key, 1)
        best_entry == _fuzzy_match(lookup, state_name, county_key)
    IN  IF got = <<>> THEN [via |-> "UnsupportedState", entry |-> <<>>]
        ELSE IF exact /= <<>> THEN [via |-> "exact", entry |-> exact]
        ELSE IF best_entry /= <<>> THEN [via |-> "fuzzy", entry |-> best_entry]
        ELSE IF state_name \in DOMAIN lookup.state_rest
             THEN [via |-> "rest", entry |-> <<lookup.state_rest[state_name]>>]
        ELSE IF state_name \in DOMAIN lookup.state_all
             THEN [via |-> "all", entry |-> <<lookup.state_all[state_name]>>]
        ELSE [via |-> "NoLocalityMapping", entry |-> <<>>]

(***************************************************************************)
(* IEEE-754 double arithmetic of the price                                 *)
(*                                                                         *)
(* The RVU and GPCI values of the model are doubles that are whole         *)
(* multiples of 1/4, kept as their number of quarters: their products and  *)
(* the sum of three products are exact in sixteenths.  The multiplication  *)
(* by CONVERSION_FACTOR and round(x, 2) are carried out bit-exactly on     *)
(* 20-bit limbs.  A double is [mant |-> <<hi, mid, lo>>, exp |-> e], the   *)
(* number (hi * 2^40 + mid * 2^20 + lo) * 2^e.                             *)
(***************************************************************************)
LimbBase == 2 ^ 20

\* 32.35 as a double: float.hex(32.35) = 0x1.02ccccccccccdp+5, that is
\* 0x102ccccccccccd * 2^-47
CONVERSION_FACTOR == [mant |-> <<4140, 838860, 838861>>, exp |-> 0 - 47]

ZeroDouble == [mant |-> <<0, 0, 0>>, exp |-> 0]

RECURSIVE BitLength(_)
BitLength(n) == IF n = 0 THEN 0 ELSE 1 + BitLength(n \div 2)

\* mant * k for a small natural k (k < 1024), limbs carried
LimbsTimes(mant, k) ==
    LET p0 == mant[3] * k
        p1 == mant[2] * k + (p0 \div LimbBase)
        p2 == mant[1] * k + (p1 \div LimbBase)
    IN  <<p2, p1 % LimbBase, p0 % LimbBase>>

\* mant + 1
LimbsSucc(mant) ==
    IF mant[3] + 1 < LimbBase THEN <<mant[1], mant[2], mant[3] + 1>>
    ELSE IF mant[2] + 1 < LimbBase THEN <<mant[1], mant[2] + 1, 0>>
    ELSE <<mant[1] + 1, 0, 0>>

\* the double nearest to sixteenths/16 * CONVERSION_FACTOR (ties to even):
\* the exact product is cut to 53 bits
TimesConversionFactor(sixteenths) ==
    IF sixteenths = 0 THEN ZeroDouble
    ELSE
    LET p == LimbsTimes(CONVERSION_FACTOR.mant, sixteenths)
        s == BitLength(p[1]) - 13
        low == 2 ^ s
        q == << p[1] \div low,
                (p[2] \div low) + (p[1] % low) * (LimbBase \div low),
                (p[3] \div low) + (p[2] % low) * (LimbBase \div low) >>
        r == p[3] % low
        up == s > 0 /\ (2 * r > low \/ (2 * r = low /\ q[3] % 2 = 1))
    IN  [mant |-> IF up THEN LimbsSucc(q) ELSE q,
         exp |-> CONVERSION_FACTOR.exp - 4 + s]

\* x * 100 cut at the binary point, for a double x >= 0 with 40 to 59 bits
\* after the point: [floor, cmp] with cmp the sign of (fraction - 1/2)
CentsOf(x) ==
    LET y == LimbsTimes(x.mant, 100)
        t == 0 - x.exp
        topbits == 2 ^ (t - 40)
        \* the bits of the fraction from 2^-1 down to the end of limb 2 and
        \* the first bit of limb 1, against the same bits of 1/2
        top == (y[1] % topbits) * 2 + (y[2] \div (LimbBase \div 2))
        rest == (y[2] % (LimbBase \div 2)) + y[3]
    IN  [floor |-> y[1] \div topbits,
         cmp |-> IF top > topbits THEN 1
                 ELSE IF top < topbits THEN 0 - 1
                 ELSE IF rest > 0 THEN 1 ELSE 0]

\* x is exactly a half cent: x.xx5
IsHalfCent(x) == x /= ZeroDouble /\ CentsOf(x).cmp = 0

\* round(x, 2) replaced by rounding half up
PyRound2_half_up(x) ==
    IF x = ZeroDouble THEN 0
    ELSE LET c == CentsOf(x)
         IN  IF c.cmp >= 0 THEN c.floor + 1 ELSE c.floor

\* round(x, 2), as a number of cents: Python rounds the exact binary value
\* correctly, a tie going to the even neighbour
PyRound2(x) ==
    IF x = ZeroDouble THEN 0
    ELSE LET c == CentsOf(x)
         IN  IF c.cmp > 0 \/ (c.cmp = 0 /\ c.floor % 2 = 1) THEN c.floor + 1
             ELSE c.floor

(***************************************************************************)
(* Reference tables                                                        *)
(*                                                                         *)
(* A raw row is a row of the CSV file as pandas reads it.  A number that   *)
(* pd.to_numeric coerces from text that is no number is NaN.               *)
(***************************************************************************)
NaN == -1

\* _load_zip_to_county: ZIP and COUNTY are zero-filled to 5 digits
_load_zip_to_county(raw) ==
    [i \in 1..Len(raw) |->
        [raw[i] EXCEPT !.ZIP = ZFill(@, 5), !.COUNTY = ZFill(@, 5)]]

RECURSIVE DropMissingRatio(_)
DropMissingRatio(rows) ==
    IF rows = <<>> THEN <<>>
    ELSE (IF Head(rows).RES_RATIO /= NaN THEN <<Head(rows)>> ELSE <<>>)
         \o DropMissingRatio(Tail(rows))

\* migrate_zip_to_county: as the loader, then the rows without a ratio are
\* dropped (dropna) before the INSERTs
migrate_zip_to_county(raw) == DropMissingRatio(_load_zip_to_county(raw))

\* ZIP_TO_COUNTY_GROUPED.get_group(zip_code), and the rows WHERE zip = ?
RECURSIVE ZipGroup(_, _)
ZipGroup(table, zip_code) ==
    IF table = <<>> THEN <<>>
    ELSE (IF Head(table).ZIP = zip_code THEN <<Head(table)>> ELSE <<>>)
         \o ZipGroup(Tail(table), zip_code)

\* The rows that sort_values("RES_RATIO", ascending=False), or ORDER BY
\* res_ratio DESC, may put first.  pandas sorts with quicksort, which is not
\* stable, and SQL leaves the order of equal keys open: any row with the
\* greatest ratio may come first.  Rows without a ratio are placed last, in
\* their own order.
MayComeFirst(rows) ==
    LET numeric == {i \in 1..Len(rows) : rows[i].RES_RATIO /= NaN}
    IN  IF rows = <<>> THEN {}
        ELSE IF numeric = {} THEN {1}
        ELSE {i \in numeric : \A j \in numeric : rows[j].RES_RATIO <= rows[i].RES_RATIO}

ZipKeys(table) == {table[i].ZIP : i \in 1..Len(table)}

\* _load_county_reference: county_code = state_fips.zfill(2) + county_fips.zfill(3),
\* then to_dict (the last row of a code wins)
RECURSIVE CountyReferenceItems(_, _)
CountyReferenceItems(items, raw) ==
    IF raw = <<>> THEN items
    ELSE CountyReferenceItems(
            ItemsSet(items, ZFill(Head(raw).state_fips, 2) \o ZFill(Head(raw).county_fips, 3),
                     Head(raw).county_name),
            Tail(raw))

_load_county_reference(raw) == CountyReferenceItems(<<>>, raw)

\* _load_gpci_lookup: the key is (State.strip(), normalized locality number);
\* rows with a missing multiplier are dropped; a later row replaces an earlier
\* one with the same key.  [ok, items]: ok is FALSE when a locality number
\* raises, which the loader does not catch.
RECURSIVE GpciItems(_, _)
GpciItems(acc, raw) ==
    IF raw = <<>> \/ ~acc.ok THEN acc
    ELSE LET row == Head(raw)
             number == _normalize_locality_number(row.LocalityNumber)
             complete == NaN \notin {row.PW_GPCI, row.PE_GPCI, row.MP_GPCI}
             value == [PW_GPCI |-> row.PW_GPCI, PE_GPCI |-> row.PE_GPCI,
                       MP_GPCI |-> row.MP_GPCI]
         IN  GpciItems(
                 IF ~number.ok THEN [acc EXCEPT !.ok = FALSE]
                 ELSE IF ~complete THEN acc
                 ELSE [acc EXCEPT !.items =
                          ItemsSet(@, <<StrStrip(row.State), number.val>>, value)],
                 Tail(raw))

_load_gpci_lookup(raw) == GpciItems([ok |-> TRUE, items |-> <<>>], raw)

\* the RVU table without the filter on MOD: the first row of a code is kept
\* whatever its modifier
RECURSIVE RvuItems_keeps_modifiers(_, _)
RvuItems_keeps_modifiers(items, raw) ==
    IF raw = <<>> THEN items
    ELSE LET row == Head(raw)
             hcpcs == StrStrip(row.HCPCS)
             keep == /\ hcpcs /= ""
                     /\ NaN \notin {row.PW_RVU, row.PE_RVU, row.MP_RVU}
                     /\ ItemsGet(items, hcpcs, 1) = <<>>
             value == [PW_RVU |-> row.PW_RVU, PE_RVU |-> row.PE_RVU,
                       MP_RVU |-> row.MP_RVU]
         IN  RvuItems_keeps_modifiers(
                 IF keep THEN items \o << <<hcpcs, value>> >> ELSE items, Tail(raw))

\* _load_rvu_lookup: HCPCS stripped and not empty, rows with a modifier
\* dropped, rows with a missing component dropped, the first row of a code kept
RECURSIVE RvuItems(_, _)
RvuItems(items, raw) ==
    IF raw = <<>> THEN items
    ELSE LET row == Head(raw)
             hcpcs == StrStrip(row.HCPCS)
             keep == /\ hcpcs /= ""
                     /\ StrStrip(row.MOD) = ""
                     /\ NaN \notin {row.PW_RVU, row.PE_RVU, row.MP_RVU}
                     /\ ItemsGet(items, hcpcs, 1) = <<>>
             value == [PW_RVU |-> row.PW_RVU, PE_RVU |-> row.PE_RVU,
                       MP_RVU |-> row.MP_RVU]
         IN  RvuItems(IF keep THEN items \o << <<hcpcs, value>> >> ELSE items, Tail(raw))

_load_rvu_lookup(raw) == RvuItems(<<>>, raw)

\* migrate_county_locality: the rows whose locality number normalizes, the
\* number normalized and the texts stripped; a missing MAC is stored as NULL
\* and read back as None
RECURSIVE MigrateLocalityRows(_)
MigrateLocalityRows(raw) ==
    IF raw = <<>> THEN <<>>
    ELSE LET row == Head(raw)
             number == _normalize_locality_number(row.LocalityNumber)
             None == [isstr |-> FALSE, s |-> "None"]
             Text(cell) == PyStr(StrStrip(cell.s))
         IN  (IF ~number.ok THEN <<>>
              ELSE << [MAC |-> IF row.MAC.isstr THEN Text(row.MAC) ELSE None,
                       LocalityNumber |-> PyStr(number.val),
                       StateLabel |-> Text(row.StateLabel),
                       LocalityName |-> Text(row.LocalityName),
                       Counties |-> Text(row.Counties)] >>)
             \o MigrateLocalityRows(Tail(raw))

migrate_county_locality(raw) == MigrateLocalityRows(raw)

(***************************************************************************)
(* The pricing pipeline.  store is the reference data a call reads: the    *)
(* module globals, or the database tables when USE_DATABASE is set.        *)
(* first_row[zip] is the row of the ZIP that the sort of this build puts   *)
(* first.  A step returns [ok |-> TRUE, ...] or [ok |-> FALSE, error].     *)
(***************************************************************************)
Raise(kind) == [ok |-> FALSE, error |-> kind]

\* _select_county without the sort: the first row of the ZIP
_select_county_unsorted(store, zip_code) ==
    LET rows == ZipGroup(store.ZIP_TO_COUNTY, zip_code)
        best_row == rows[1]
    IN  IF rows = <<>> THEN Raise("ZipNotFound")
        ELSE [ok |-> TRUE, county_code |-> best_row.COUNTY,
              state_abbr |-> best_row.USPS_ZIP_PREF_STATE]

_select_county(store, zip_code) ==
    LET rows == ZipGroup(store.ZIP_TO_COUNTY, zip_code)
        best_row == rows[store.first_row[zip_code]]
    IN  IF rows = <<>> THEN Raise("ZipNotFound")
        ELSE [ok |-> TRUE, county_code |-> best_row.COUNTY,
              state_abbr |-> best_row.USPS_ZIP_PREF_STATE]

\* COUNTY_CODE_TO_NAME.get(code) with "if not county_name" (None and "" are
\* falsy, nan is not); the database row with "if not row"
_get_county_name(store, county_code) ==
    LET found == ItemsGet(store.COUNTY_CODE_TO_NAME, county_code, 1)
    IN  IF found = <<>> THEN Raise("CountyCodeNotFound")
        ELSE IF ~store.USE_DATABASE /\ found[1] = PyStr("") THEN Raise("CountyCodeNotFound")
        ELSE [ok |-> TRUE, county_name |-> found[1]]

\* the LocalityLookup that _resolve_locality queries: the module's
\* LOCALITY_LOOKUP, or one built for this call from the county_locality table
LookupOf(store) ==
    IF store.USE_DATABASE THEN LocalityLookup(store.county_locality)
    ELSE store.LOCALITY_LOOKUP

\* the LocalityLookup objects that a _resolve_locality constructs once
\* _get_county_name has returned (line 550 with USE_DATABASE, none otherwise)
LookupBuilds(store) == IF store.USE_DATABASE THEN 1 ELSE 0

\* _resolve_locality once find has answered for the county name
LocalityFound(county_name, found) ==
    IF found.entry = <<>>
    THEN Raise(found.via) @@ [steps |-> <<"_get_county_name", "find">>,
                               county_name |-> county_name]
    ELSE [ok |-> TRUE, steps |-> <<"_get_county_name", "find">>,
          county_name |-> county_name, via |-> found.via,
          locality |-> found.entry[1]]

\* _resolve_locality once _get_county_name has returned or raised
CountyNamed(store, state_abbr, name) ==
    IF ~name.ok THEN name @@ [steps |-> <<"_get_county_name">>]
    ELSE LocalityFound(name.county_name,
                       find(LookupOf(store), state_abbr, name.county_name))
         @@ [builds |-> LookupBuilds(store)]

_resolve_locality(store, county_code, state_abbr) ==
    CountyNamed(store, state_abbr, _get_county_name(store, county_code))

\* _fetch_gpci keyed by the state alone: the first locality of the state
_fetch_gpci_by_state(store, entry) ==
    LET rows == {i \in 1..Len(store.GPCI_LOOKUP) :
                    store.GPCI_LOOKUP[i][1][1] = entry.state_abbr}
        first == CHOOSE i \in rows : \A j \in rows : i <= j
    IN  IF rows = {} THEN Raise("GpciNotFound")
        ELSE [ok |-> TRUE, gpci |-> store.GPCI_LOOKUP[first][2]]

_fetch_gpci(store, entry) ==
    LET key == <<entry.state_abbr, entry.locality_number>>
        gpci == ItemsGet(store.GPCI_LOOKUP, key, 1)
    IN  IF gpci = <<>> THEN Raise("GpciNotFound") ELSE [ok |-> TRUE, gpci |-> gpci[1]]

\* _fetch_rvu that prices an unknown code with zero RVUs
_fetch_rvu_default(store, cpt_code) ==
    LET rvu == ItemsGet(store.RVU_LOOKUP, cpt_code, 1)
    IN  IF rvu = <<>> THEN [ok |-> TRUE, rvu |-> [PW_RVU |-> 0, PE_RVU |-> 0, MP_RVU |-> 0]]
        ELSE [ok |-> TRUE, rvu |-> rvu[1]]

_fetch_rvu(store, cpt_code) ==
    LET rvu == ItemsGet(store.RVU_LOOKUP, cpt_code, 1)
    IN  IF rvu = <<>> THEN Raise("RvuNotFound") ELSE [ok |-> TRUE, rvu |-> rvu[1]]

\* RVUs and GPCIs are doubles that are whole quarters, held as their number
\* of quarters: the three products and their sum are exact, in sixteenths
WeightedSum(rvu, gpci) ==
    (rvu.PW_RVU * gpci.PW_GPCI) + (rvu.PE_RVU * gpci.PE_GPCI) + (rvu.MP_RVU * gpci.MP_GPCI)

\* The outcome of a call that has not reached a step has that step's fields
\* empty: <<>> for a value, "" for a text.
NoOutcome ==
    [error |-> "", steps |-> <<>>, normalized_zip |-> "", normalized_cpt |-> "",
     county_code |-> "", state_abbr |-> "", county_name |-> <<>>, via |-> "",
     locality |-> <<>>, gpci |-> <<>>, rvu |-> <<>>, final_price |-> <<>>,
     price |-> <<>>, builds |-> 0]

\* get_medicare_price from the amount on: the amount and its rounding
Priced(out, rvu, final_price) ==
    [out EXCEPT !.rvu = <<rvu>>,
                !.final_price = <<final_price>>,
                !.price = <<PyRound2(final_price)>>]

\* get_medicare_price once _fetch_rvu has returned or raised
RvuFetched(out, gpci, rvu) ==
    IF ~rvu.ok THEN [out EXCEPT !.error = rvu.error]
    ELSE Priced(out, rvu.rvu, TimesConversionFactor(WeightedSum(rvu.rvu, gpci)))

\* get_medicare_price once _fetch_gpci has returned or raised
GpciFetched(store, out, gpci) ==
    IF ~gpci.ok THEN [out EXCEPT !.error = gpci.error]
    ELSE RvuFetched([out EXCEPT !.gpci = <<gpci.gpci>>,
                                !.steps = @ \o <<"_fetch_rvu">>],
                    gpci.gpci, _fetch_rvu(store, out.normalized_cpt))

\* get_medicare_price once _resolve_locality has returned or raised
LocalityResolved(store, out, resolved) ==
    IF ~resolved.ok /\ Len(resolved.steps) = 1
    THEN [out EXCEPT !.steps = @ \o resolved.steps, !.error = resolved.error]
    ELSE IF ~resolved.ok
    THEN [out EXCEPT !.steps = @ \o resolved.steps,
                     !.county_name = <<resolved.county_name>>,
                     !.builds = resolved.builds,
                     !.error = resolved.error]
    ELSE GpciFetched(store,
                     [out EXCEPT !.steps = @ \o resolved.steps \o <<"_fetch_gpci">>,
                                 !.county_name = <<resolved.county_name>>,
                                 !.builds = resolved.builds,
                                 !.via = resolved.via,
                                 !.locality = <<resolved.locality>>],
                     _fetch_gpci(store, resolved.locality))

\* get_medicare_price once _select_county has returned or raised
CountySelected(store, out, county) ==
    IF ~county.ok THEN [out EXCEPT !.error = county.error]
    ELSE LocalityResolved(store,
                          [out EXCEPT !.county_code = county.county_code,
                                      !.state_abbr = county.state_abbr],
                          _resolve_locality(store, county.county_code,
                                            county.state_abbr))

\* get_medicare_price once the inputs are validated and normalized
Validated(store, out) ==
    CountySelected(store, [out EXCEPT !.steps = <<"_select_county">>],
                   _select_county(store, out.normalized_zip))

get_medicare_price(store, cpt_code, zip_code) ==
    IF cpt_code = "" THEN [NoOutcome EXCEPT !.error = "InvalidInput"]
    ELSE IF zip_code = "" THEN [NoOutcome EXCEPT !.error = "InvalidInput"]
    ELSE IF ~StrIsDigit(StrStrip(zip_code)) THEN [NoOutcome EXCEPT !.error = "InvalidZip"]
    ELSE Validated(store,
                   [NoOutcome EXCEPT !.normalized_zip = ZFill(StrStrip(zip_code), 5),
                                     !.normalized_cpt = StrUpper(StrStrip(cpt_code))])

(***************************************************************************)
(* Reference data of the model                                             *)
(***************************************************************************)
MaxLocalityRows == 2
MaxSegments == 2
MaxBuildRows == 3
MaxThreads == 2
MaxRvuRows == 3

\* the sequences of at most n distinct elements of S
DistinctSeqs(S, n) ==
    UNION {{f \in [1..k -> S] : \A i, j \in 1..k : i /= j => f[i] /= f[j]} : k \in 0..n}

ZipRow(zip, county, state, res_ratio) ==
    [ZIP |-> zip, COUNTY |-> county, USPS_ZIP_PREF_STATE |-> state, RES_RATIO |-> res_ratio]

\* RES_RATIO is held in hundredths
ZipAdjuntas == ZipRow("601", "72001", "PR", 30)
ZipUtuado == ZipRow("601", "72141", "PR", 70)
ZipPonce == ZipRow("601", "72113", "PR", 70)
ZipJayuya == ZipRow("601", "72073", "PR", NaN)
ZipWashington == ZipRow("32425", "12133", "FL", 100)
ZipMiamiDade == ZipRow("32425", "12086", "FL", 100)
ZipHolmes == ZipRow("32425", "12059", "FL", NaN)
ZipSamoa == ZipRow("96799", "60050", "AS", 100)

ZipTableCandidates ==
    {<<>>,
     <<ZipAdjuntas, ZipUtuado, ZipWashington>>,
     <<ZipUtuado, ZipPonce, ZipAdjuntas, ZipSamoa>>,
     <<ZipJayuya, ZipAdjuntas, ZipMiamiDade, ZipWashington>>,
     <<ZipHolmes, ZipPonce>>,
     <<ZipWashington, ZipSamoa>>}

CountyRow(state_fips, county_fips, county_name) ==
    [state_fips |-> state_fips, county_fips |-> county_fips, county_name |-> county_name]

CountyReferenceFull ==
    <<CountyRow("72", "1", PyStr("Adjuntas Municipio")),
      CountyRow("72", "141", PyStr("Utuado Municipio")),
      CountyRow("72", "113", PyStr("Ponce Municipio")),
      CountyRow("12", "133", PyStr("Washington County")),
      CountyRow("12", "086", PyStr("Miami-Dade County")),
      CountyRow("12", "59", PyStr("Holmes County")),
      CountyRow("60", "050", PyStr("Western District"))>>

CountyReferencePartial ==
    <<CountyRow("72", "001", PyStr("Adjuntas Municipio")),
      CountyRow("72", "113", PyNaN),
      CountyRow("12", "133", PyStr("Washingtom")),
      CountyRow("12", "086", PyStr("Dade County"))>>

LocalityRow(mac, number, state, name, counties) ==
    [MAC |-> PyStr(mac), LocalityNumber |-> PyStr(number), StateLabel |-> PyStr(state),
     LocalityName |-> PyStr(name), Counties |-> PyStr(counties)]

RowWashingtom == LocalityRow("09102", "03", "FLORIDA", "MIAMI", "WASHINGTOM AND DADE")
RowWashington == LocalityRow("09102", "04 ", "FLORIDA ", "FORT LAUDERDALE", "WASHINGTON")
RowRest == LocalityRow("09102", "99", "FLORIDA", "REST OF FLORIDA", "ALL OTHER COUNTIES")
RowAllFlorida == LocalityRow("09102", "01", "FLORIDA", "STATEWIDE", "ALL COUNTIES")
RowAllPuertoRico == LocalityRow("09202", "20", "PUERTO RICO", "PUERTO RICO", "ALL COUNTIES")
RowNoNumber == LocalityRow("09102", "n/a", "FLORIDA", "MIAMI", "DADE")
RowDade == LocalityRow("09102", "05", "FLORIDA", "KEYS", "DADE COUNTY, --, SAINT JOHNS")

LocalityRowCandidates ==
    {RowWashingtom, RowWashington, RowRest, RowAllFlorida, RowAllPuertoRico, RowDade}

CountyLocalityFull == <<RowWashington, RowDade, RowRest, RowAllPuertoRico>>
CountyLocalityPartial == <<RowNoNumber, RowDade>>

GpciRow(state, number, pw, pe, mp) ==
    [State |-> state, LocalityNumber |-> PyStr(number), PW_GPCI |-> pw, PE_GPCI |-> pe,
     MP_GPCI |-> mp]

RvuRow(hcpcs, mod, pw, pe, mp) ==
    [HCPCS |-> hcpcs, MOD |-> mod, PW_RVU |-> pw, PE_RVU |-> pe, MP_RVU |-> mp]

\* the GPCI file and the RVU file of a fee schedule, values in quarters
FeeScheduleFull ==
    [gpci |-> <<GpciRow("FL", "04", 4, 4, 4), GpciRow("FL ", "99", 4, 5, 6),
                GpciRow("PR", "20", 4, 4, 4), GpciRow("FL", "05", 4, 3, 2)>>,
     rvu |-> <<RvuRow("99285", "26", 8, 4, 0), RvuRow("99285", "", 16, 10, 4),
               RvuRow("G0008 ", " ", 6, 3, 1), RvuRow("G0009", "", 6, NaN, 1)>>]

FeeSchedulePartial ==
    [gpci |-> <<GpciRow("FL", "4", 4, 4, 4), GpciRow("FL", "99", 4, NaN, 4)>>,
     rvu |-> <<RvuRow("99285", "", 16, 10, 5)>>]

\* the reference files other than the ZIP file, as they are released together
ReleaseCandidates ==
    {[counties |-> CountyReferenceFull, localities |-> CountyLocalityFull,
      fees |-> FeeScheduleFull],
     [counties |-> CountyReferencePartial, localities |-> CountyLocalityPartial,
      fees |-> FeeScheduleFull],
     [counties |-> CountyReferenceFull, localities |-> CountyLocalityFull,
      fees |-> FeeSchedulePartial]}

CodeInputs == {"", " ", "99285", "g0008 ", "ZZZZZ"}
ZipInputs == {"", " ", "601", " 32425", "99999", "33a39", "96799"}

AbbrInputs == {"FL", "PR", "XX"}
NameInputs ==
    {PyStr("Washington"), PyStr("Washingtox"), PyStr("Washingtonn"), PyStr("Washing"),
     PyStr("Dade County"), PyStr(""), PyNaN, PyStr("St. Johns"), PyStr("SAINT JOHNS")}

(***************************************************************************)
(* State                                                                   *)
(***************************************************************************)
VARIABLES USE_DATABASE, ZIP_TO_COUNTY, COUNTY_CODE_TO_NAME, county_locality,
          LOCALITY_LOOKUP, GPCI_LOOKUP, RVU_LOOKUP, first_row, call, frames

vars == <<USE_DATABASE, ZIP_TO_COUNTY, COUNTY_CODE_TO_NAME, county_locality,
          LOCALITY_LOOKUP, GPCI_LOOKUP, RVU_LOOKUP, first_row, call, frames>>

tables == <<USE_DATABASE, ZIP_TO_COUNTY, COUNTY_CODE_TO_NAME, county_locality,
            LOCALITY_LOOKUP, GPCI_LOOKUP, RVU_LOOKUP, first_row>>

\* the tables other than the module's index
others == <<USE_DATABASE, ZIP_TO_COUNTY, COUNTY_CODE_TO_NAME, county_locality,
            GPCI_LOOKUP, RVU_LOOKUP, first_row>>

Store ==
    [USE_DATABASE |-> USE_DATABASE, ZIP_TO_COUNTY |-> ZIP_TO_COUNTY,
     COUNTY_CODE_TO_NAME |-> COUNTY_CODE_TO_NAME, county_locality |-> county_locality,
     LOCALITY_LOOKUP |-> LOCALITY_LOOKUP, GPCI_LOOKUP |-> GPCI_LOOKUP,
     RVU_LOOKUP |-> RVU_LOOKUP, first_row |-> first_row]

NoCall == [op |-> "none"]

\* The module after import (lines 441-464): with USE_DATABASE the tables are
\* those that create_database.py migrated and no index is held; otherwise the
\* files are loaded and the index is built once.
Load(use_database, zips, counties, localities, fees) ==
    /\ USE_DATABASE = use_database
    /\ ZIP_TO_COUNTY = IF use_database THEN migrate_zip_to_county(zips)
                       ELSE _load_zip_to_county(zips)
    /\ COUNTY_CODE_TO_NAME = _load_county_reference(counties)
    /\ county_locality = IF use_database THEN migrate_county_locality(localities)
                         ELSE localities
    /\ LOCALITY_LOOKUP = IF use_database THEN LocalityLookup(<<>>)
                         ELSE LocalityLookup(localities)
    /\ LOCALITY_LOOKUP.error = ""
    /\ _load_gpci_lookup(fees.gpci).ok
    /\ GPCI_LOOKUP = _load_gpci_lookup(fees.gpci).items
    /\ RVU_LOOKUP = _load_rvu_lookup(fees.rvu)
    /\ first_row \in [ZipKeys(ZIP_TO_COUNTY) -> 1..Len(zips)]
    /\ \A zip \in ZipKeys(ZIP_TO_COUNTY) :
          first_row[zip] \in MayComeFirst(ZipGroup(ZIP_TO_COUNTY, zip))
    /\ call = NoCall

\* no call is running when the module has been loaded
NoFrames == <<>>

Init ==
    /\ \E use_database \in BOOLEAN, zips \in ZipTableCandidates, release \in ReleaseCandidates :
          Load(use_database, zips, release.counties, release.localities, release.fees)
    /\ frames = NoFrames

\* a call reads the tables; what it leaves of the module's index is what its
\* find leaves (with USE_DATABASE find runs on an index of the call's own)
GetMedicarePrice(cpt_code, zip_code) ==
    /\ call' = [op |-> "get_medicare_price", cpt_code |-> cpt_code, zip_code |-> zip_code]
               @@ get_medicare_price(Store, cpt_code, zip_code)
    /\ LOCALITY_LOOKUP' =
          IF ~USE_DATABASE /\ (\E i \in 1..Len(call'.steps) : call'.steps[i] = "find")
          THEN AfterFind(LOCALITY_LOOKUP, call'.state_abbr, call'.county_name[1])
          ELSE LOCALITY_LOOKUP
    /\ UNCHANGED <<others, frames>>

Next == \E cpt_code \in CodeInputs, zip_code \in ZipInputs : GetMedicarePrice(cpt_code, zip_code)

Spec == Init /\ [][Next]_vars

\* The index alone: an index built from any short county-locality file, and
\* the calls of LocalityLookup.find on it.
InitLookup ==
    /\ \E localities \in DistinctSeqs(LocalityRowCandidates, MaxLocalityRows) :
          Load(FALSE, <<>>, <<>>, localities, [gpci |-> <<>>, rvu |-> <<>>])
    /\ frames = NoFrames

Find(state_abbr, county_name) ==
    /\ call' = [op |-> "find", state_abbr |-> state_abbr, county_name |-> county_name]
               @@ find(LOCALITY_LOOKUP, state_abbr, county_name)
    /\ LOCALITY_LOOKUP' = AfterFind(LOCALITY_LOOKUP, state_abbr, county_name)
    /\ UNCHANGED <<others, frames>>

NextLookup == \E state_abbr \in AbbrInputs, county_name \in NameInputs : Find(state_abbr, county_name)

SpecLookup == InitLookup /\ [][NextLookup]_vars

\* The text functions alone: the normalizer, the scope classifier and the
\* segment parser, each called once on a text put together from a few parts.
CountyNameInputs ==
    {PyStr(prefix \o stem \o ending) :
        prefix \in {"", "St. ", "Saint ", "Sainte "},
        stem \in {"Johns", "Sain't", "Rock Island", "James City", "C-nty Line",
                  "Prince George's"},
        ending \in {"", " County", " Cnty", " Borough", " Census Area",
                    " County Island"}}
    \cup {PyStr(""), PyStr("SAINT JOHNS"), PyNaN}

ScopeTextInputs ==
    {"ALL OTHER COUNTIES", "All Other Counties", "Dade, all other counties",
     "ALL COUNTY EQUIVALENTS", "All county equivalents except all other counties",
     "ALL COUNTIES EXCEPT DADE", "All counties except Dade", "EXCEPT ALL COUNTIES",
     "ALL COUNTIES", "all counties", "Dade and all counties", "ALL COUNTY",
     "All county areas", "ALL", "DADE", "", "Excepting all county equivalents"}

\* a segment of a counties text: its county list and the states of its
\* trailing "IN <states>" ("" when it has none)
SegmentInputs ==
    {[counties |-> "Los Angeles", override |-> ""],
     [counties |-> "San Diego", override |-> "California"],
     [counties |-> "San Diego", override |-> "Iowa, Ohio"],
     [counties |-> "Los Angeles", override |-> "Iowa/Ohio"],
     [counties |-> "Ada/Bay & Lee, Anderson AND Ely and Coos", override |-> "Iowa & Ohio"],
     [counties |-> "Ada/Bay & Lee, Anderson AND Ely and Coos", override |-> ""],
     [counties |-> "", override |-> "California"],
     [counties |-> " ", override |-> ""],
     [counties |-> ", / & and", override |-> ""]}

DefaultStatesInputs == {<<"CALIFORNIA">>, <<"IOWA", "UTAH">>}

SegmentText(part) ==
    part.counties \o (IF part.override = "" THEN "" ELSE " IN " \o part.override)

RECURSIVE JoinTexts(_, _)
JoinTexts(texts, sep) ==
    IF texts = <<>> THEN ""
    ELSE IF Len(texts) = 1 THEN texts[1]
    ELSE texts[1] \o sep \o JoinTexts(Tail(texts), sep)

CountiesText(parts) == JoinTexts([i \in 1..Len(parts) |-> SegmentText(parts[i])], "; ")

\* the rows of an RVU file: with and without a modifier, with a missing RVU,
\* with blanks around the code, without a code
RvuRowInputs ==
    {RvuRow("99285", "26", 8, 4, 0), RvuRow("99285", "", 6, NaN, 1),
     RvuRow(" 99285", " ", 16, 10, 4), RvuRow("99285", "", 6, 3, 1),
     RvuRow("G0008", "TC", 6, 3, 1), RvuRow(" ", "", 4, 4, 4)}

RvuCodeInputs == {"99285", "G0008"}

\* the RVU table of the module loaded from the RVU file
RvuStore(raw) == [RVU_LOOKUP |-> _load_rvu_lookup(raw)]

\* the texts of a locality number: blanks, leading zeros, a fraction
LocalityNumberInputs ==
    {before \o zeros \o digits \o fraction \o after :
        before \in {"", " "}, zeros \in {"", "0", "00"}, digits \in {"0", "5", "12", "99"},
        fraction \in {"", ".0"}, after \in {"", " "}}
    \cup {"", " ", "n/a", "nan", "+05", "5.", "7.00", "5.5.", "1 2"}

\* the locality numbers that an index holds, and those in the keys of a GPCI
\* table
EntryNumbers(index) ==
    [i \in 1..Len(SpecificOf(index, "FLORIDA")) |->
        SpecificOf(index, "FLORIDA")[i][2].locality_number]

GpciNumbers(loaded) ==
    IF ~loaded.ok THEN <<>> ELSE [i \in 1..Len(loaded.items) |-> loaded.items[i][1][2]]

InitText ==
    /\ Load(FALSE, <<>>, <<>>, <<>>, [gpci |-> <<>>, rvu |-> <<>>])
    /\ frames = NoFrames

\* folded and stripped are the value before and after the suffix loop
NormalizeCountyName(name) ==
    /\ call = NoCall
    /\ call' = [op |-> "_normalize_county_name", name |-> name,
                folded |-> FoldVariants(name.s),
                stripped |-> StripSuffixes(FoldVariants(name.s), 1),
                key |-> _normalize_county_name(name)]
    /\ UNCHANGED <<tables, frames>>

ClassifyCountyScope(text) ==
    /\ call = NoCall
    /\ call' = [op |-> "_classify_county_scope", text |-> text,
                scope |-> _classify_county_scope(text)]
    /\ UNCHANGED <<tables, frames>>

\* the parse of a counties text, and the index built from the one row that
\* carries it for the default states
ParseCountySegments(parts, default_states) ==
    /\ call = NoCall
    /\ call' = [op |-> "_parse_county_segments", parts |-> parts,
                text |-> CountiesText(parts), default_states |-> default_states,
                segments |-> _parse_county_segments(CountiesText(parts), default_states),
                index |-> LocalityLookup(
                             <<LocalityRow("09102", "07", JoinTexts(default_states, "/"),
                                           "AREA", CountiesText(parts))>>)]
    /\ UNCHANGED <<tables, frames>>

\* the number of a text, the number of the entry of a county-locality row
\* with that text and the number in the key of a GPCI row with it (<<>> when
\* the row is skipped or the load fails)
NormalizeLocalityNumber(value) ==
    /\ call = NoCall
    /\ call' = [op |-> "_normalize_locality_number", value |-> value,
                result |-> _normalize_locality_number(PyStr(value)),
                entry_number |->
                    EntryNumbers(LocalityLookup(
                        <<LocalityRow("09102", value, "FLORIDA", "MIAMI", "DADE")>>)),
                gpci_number |->
                    GpciNumbers(_load_gpci_lookup(<<GpciRow("FL", value, 4, 4, 4)>>))]
    /\ UNCHANGED <<tables, frames>>

\* the table of an RVU file, and get_medicare_price from _fetch_rvu on
\* (lines 640-646) with that table, when the steps before have resolved a
\* locality whose GPCIs are 1.0
LoadRvuLookup(raw) ==
    /\ call = NoCall
    /\ call' = [op |-> "_load_rvu_lookup", raw |-> raw, table |-> _load_rvu_lookup(raw),
                price |-> [code \in RvuCodeInputs |->
                              RvuFetched(NoOutcome, [PW_GPCI |-> 4, PE_GPCI |-> 4, MP_GPCI |-> 4],
                                         _fetch_rvu(RvuStore(raw), code))]]
    /\ UNCHANGED <<tables, frames>>

NextText ==
    \/ \E raw \in DistinctSeqs(RvuRowInputs, MaxRvuRows) : LoadRvuLookup(raw)
    \/ \E value \in LocalityNumberInputs : NormalizeLocalityNumber(value)
    \/ \E name \in CountyNameInputs : NormalizeCountyName(name)
    \/ \E text \in ScopeTextInputs : ClassifyCountyScope(text)
    \/ \E parts \in DistinctSeqs(SegmentInputs, MaxSegments), default_states \in DefaultStatesInputs :
          parts /= <<>> /\ ParseCountySegments(parts, default_states)

SpecText == InitText /\ [][NextText]_vars

\* The construction of the index alone: the loop of _build, one row of a
\* county-locality frame at a time, from the empty index of __init__.
\* county_locality is the rows the loop has been through; an exception that
\* the loop does not catch ends it.
RowBlankNumber == LocalityRow("09102", " ", "FLORIDA", "MIAMI", "DADE")
RowRestKeys == LocalityRow("09102", "98", "FLORIDA", "REST OF KEYS", "ALL COUNTIES EXCEPT DADE")
RowAllTwoStates ==
    LocalityRow("09102", "02", "FLORIDA/ATLANTIS", "STATEWIDE", "ALL COUNTY EQUIVALENTS")
RowAtlantis == LocalityRow("09102", "07", "ATLANTIS/Florida", "LOST", "HOLMES")
RowInfinite == LocalityRow("09102", "inf", "FLORIDA", "MIAMI", "DADE")
RowNoMac == [RowWashington EXCEPT !.MAC = PyNaN]
RowRestTexas == LocalityRow("04412", "99", "TEXAS", "REST OF TEXAS", "All Other Counties")

BuildRowInputs ==
    {RowWashingtom, RowDade, RowRest, RowRestKeys, RowAllFlorida, RowAllTwoStates,
     RowNoNumber, RowBlankNumber, RowAtlantis, RowInfinite, RowNoMac, RowRestTexas}

InitBuild ==
    /\ Load(FALSE, <<>>, <<>>, <<>>, [gpci |-> <<>>, rvu |-> <<>>])
    /\ frames = NoFrames

BuildNextRow(row) ==
    /\ Len(county_locality) < MaxBuildRows
    /\ LOCALITY_LOOKUP.error = ""
    /\ county_locality' = Append(county_locality, row)
    /\ LOCALITY_LOOKUP' = BuildRow(LOCALITY_LOOKUP, row)
    /\ call' = [op |-> "_build", row |-> row]
    /\ UNCHANGED <<USE_DATABASE, ZIP_TO_COUNTY, COUNTY_CODE_TO_NAME, GPCI_LOOKUP,
                   RVU_LOOKUP, first_row, frames>>

NextBuild == \E row \in BuildRowInputs : BuildNextRow(row)

SpecBuild == InitBuild /\ [][NextBuild]_vars

\* Concurrent calls: each thread runs get_medicare_price on its own
\* arguments, one function of the pipeline per step, against the tables all
\* threads share.  A frame is the position of a call and its local variables
\* (out, as in the outcome of a call).  No lock is taken anywhere.
ThreadInputs == {<<"99285", " 32425">>, <<"g0008 ", "601">>, <<"ZZZZZ", "33a39">>,
                 <<"99285", "96799">>}

IdleFrame == [pc |-> "idle", cpt_code |-> "", zip_code |-> "", out |-> NoOutcome]

\* the local variables a thread reads, kept in one place for all threads
Locals_shared(all_frames, thread) == all_frames[1].out

\* the local variables of the call a thread is running
Locals(all_frames, thread) == all_frames[thread].out

At_(thread, pc) == frames[thread].pc = pc

Goto(thread, pc, out) ==
    frames' = [frames EXCEPT ![thread].pc = pc, ![thread].out = out]

InitThreads ==
    /\ \E use_database \in BOOLEAN :
          Load(use_database, <<ZipJayuya, ZipAdjuntas, ZipMiamiDade, ZipWashington>>,
               CountyReferenceFull, CountyLocalityFull, FeeScheduleFull)
    /\ frames = [thread \in 1..MaxThreads |-> IdleFrame]

\* lines 628-637: the checks and the normalization, up to the first lookup
StartCall(thread, cpt_code, zip_code) ==
    /\ frames[thread].pc \in {"idle", "done"}
    /\ frames' = [frames EXCEPT ![thread] =
          IF cpt_code = "" \/ zip_code = ""
          THEN [pc |-> "done", cpt_code |-> cpt_code, zip_code |-> zip_code,
                out |-> [NoOutcome EXCEPT !.error = "InvalidInput"]]
          ELSE IF ~StrIsDigit(StrStrip(zip_code))
          THEN [pc |-> "done", cpt_code |-> cpt_code, zip_code |-> zip_code,
                out |-> [NoOutcome EXCEPT !.error = "InvalidZip"]]
          ELSE [pc |-> "_select_county", cpt_code |-> cpt_code, zip_code |-> zip_code,
                out |-> [NoOutcome EXCEPT
                            !.normalized_zip = ZFill(StrStrip(zip_code), 5),
                            !.normalized_cpt = StrUpper(StrStrip(cpt_code)),
                            !.steps = <<"_select_county">>]]]
    /\ UNCHANGED <<tables, call>>

SelectCountyStep(thread, out, county) ==
    IF ~county.ok THEN Goto(thread, "done", [out EXCEPT !.error = county.error])
    ELSE Goto(thread, "_get_county_name",
              [out EXCEPT !.county_code = county.county_code,
                          !.state_abbr = county.state_abbr])

SelectCounty(thread) ==
    /\ At_(thread, "_select_county")
    /\ SelectCountyStep(thread, Locals(frames, thread),
                        _select_county(Store, Locals(frames, thread).normalized_zip))
    /\ UNCHANGED <<tables, call>>

GetCountyNameStep(thread, out, name) ==
    IF ~name.ok
    THEN Goto(thread, "done", [out EXCEPT !.steps = @ \o <<"_get_county_name">>,
                                          !.error = name.error])
    ELSE Goto(thread, "find", [out EXCEPT !.steps = @ \o <<"_get_county_name">>,
                                          !.county_name = <<name.county_name>>])

GetCountyName(thread) ==
    /\ At_(thread, "_get_county_name")
    /\ GetCountyNameStep(thread, Locals(frames, thread),
                         _get_county_name(Store, Locals(frames, thread).county_code))
    /\ UNCHANGED <<tables, call>>

FindLocalityStep(thread, out, found) ==
    IF found.entry = <<>>
    THEN Goto(thread, "done", [out EXCEPT !.steps = @ \o <<"find">>, !.error = found.via,
                                          !.builds = LookupBuilds(Store)])
    ELSE Goto(thread, "_fetch_gpci",
              [out EXCEPT !.steps = @ \o <<"find", "_fetch_gpci">>,
                          !.via = found.via, !.locality = found.entry,
                          !.builds = LookupBuilds(Store)])

FindLocality(thread) ==
    /\ At_(thread, "find")
    /\ FindLocalityStep(thread, Locals(frames, thread),
                        find(LookupOf(Store), Locals(frames, thread).state_abbr,
                             Locals(frames, thread).county_name[1]))
    /\ LOCALITY_LOOKUP' =
          IF USE_DATABASE THEN LOCALITY_LOOKUP
          ELSE AfterFind(LOCALITY_LOOKUP, Locals(frames, thread).state_abbr,
                         Locals(frames, thread).county_name[1])
    /\ UNCHANGED <<others, call>>

FetchGpciStep(thread, out, gpci) ==
    IF ~gpci.ok THEN Goto(thread, "done", [out EXCEPT !.error = gpci.error])
    ELSE Goto(thread, "_fetch_rvu", [out EXCEPT !.steps = @ \o <<"_fetch_rvu">>,
                                                !.gpci = <<gpci.gpci>>])

FetchGpci(thread) ==
    /\ At_(thread, "_fetch_gpci")
    /\ FetchGpciStep(thread, Locals(frames, thread),
                     _fetch_gpci(Store, Locals(frames, thread).locality[1]))
    /\ UNCHANGED <<tables, call>>

\* _fetch_rvu, and the amount and its rounding, which read locals only
FetchRvu(thread) ==
    /\ At_(thread, "_fetch_rvu")
    /\ Goto(thread, "done",
            RvuFetched(Locals(frames, thread), Locals(frames, thread).gpci[1],
                       _fetch_rvu(Store, Locals(frames, thread).normalized_cpt)))
    /\ UNCHANGED <<tables, call>>

NextThreads ==
    \E thread \in 1..MaxThreads :
        \/ \E input \in ThreadInputs : StartCall(thread, input[1], input[2])
        \/ SelectCounty(thread)
        \/ GetCountyName(thread)
        \/ FindLocality(thread)
        \/ FetchGpci(thread)
        \/ FetchRvu(thread)

SpecThreads == InitThreads /\ [][NextThreads]_vars

(***************************************************************************)
(* Properties of LocalityLookup.find (specification SpecLookup)            *)
(***************************************************************************)
IsFind == call.op = "find"
Supported(abbr) == \E i \in 1..Len(STATE_ABBR_TO_NAME) : STATE_ABBR_TO_NAME[i][1] = abbr
\* what the call looked at: the state's name, the normalized county name and
\* the state's specific entries, as <<key, entry>> in insertion order
CallStateName ==
    STATE_ABBR_TO_NAME[CHOOSE i \in 1..Len(STATE_ABBR_TO_NAME) :
                          STATE_ABBR_TO_NAME[i][1] = call.state_abbr][2]
CallKey == _normalize_county_name(call.county_name)
CallSpecific == SpecificOf(LOCALITY_LOOKUP, CallStateName)
CallScore(i) == ratio(CallSpecific[i][1], CallKey)
HasExact == \E i \in 1..Len(CallSpecific) : CallSpecific[i][1] = CallKey
\* score >= 0.90, on the fraction
Qualifies(i) == 10 * CallScore(i).num >= 9 * CallScore(i).den
HasFuzzy == \E i \in 1..Len(CallSpecific) : Qualifies(i)
HasRest == CallStateName \in DOMAIN LOCALITY_LOOKUP.state_rest
HasAll == CallStateName \in DOMAIN LOCALITY_LOOKUP.state_all

\* C1: for a supported state, find returns the specific entry of the
\* normalized name if there is one (whatever rest and all hold); otherwise a
\* fuzzy match if some key qualifies; otherwise the state's rest entry if
\* present; otherwise its all entry if present; otherwise it fails with
\* NoLocalityMapping.
C1_FindPreferenceOrder ==
    (IsFind /\ Supported(call.state_abbr)) =>
        /\ HasExact =>
              /\ call.via = "exact"
              /\ \E i \in 1..Len(CallSpecific) :
                    CallSpecific[i][1] = CallKey /\ call.entry = <<CallSpecific[i][2]>>
        /\ (~HasExact /\ HasFuzzy) =>
              /\ call.via = "fuzzy"
              /\ \E i \in 1..Len(CallSpecific) :
                    Qualifies(i) /\ call.entry = <<CallSpecific[i][2]>>
        /\ (~HasExact /\ ~HasFuzzy /\ HasRest) =>
              /\ call.via = "rest"
              /\ call.entry = <<LOCALITY_LOOKUP.state_rest[CallStateName]>>
        /\ (~HasExact /\ ~HasFuzzy /\ ~HasRest /\ HasAll) =>
              /\ call.via = "all"
              /\ call.entry = <<LOCALITY_LOOKUP.state_all[CallStateName]>>
        /\ (~HasExact /\ ~HasFuzzy /\ ~HasRest /\ ~HasAll) =>
              /\ call.via = "NoLocalityMapping"
              /\ call.entry = <<>>

\* a rest hit for a state that also has an all entry
C1_Witness ==
    /\ IsFind /\ Supported(call.state_abbr)
    /\ call.via = "rest" /\ HasAll

\* C7: a fuzzy match is returned only when its key scores at least 0.90
\* against the target, and never when the state has no specific entries.
C7_FuzzyThreshold ==
    (IsFind /\ call.via = "fuzzy") =>
        /\ CallSpecific /= <<>>
        /\ \E i \in 1..Len(CallSpecific) :
              /\ call.entry = <<CallSpecific[i][2]>>
              /\ Qualifies(i)
              /\ \A j \in 1..Len(CallSpecific) : ~ScoreGreater(CallScore(j), CallScore(i))

\* candidates exist and the best of them scores below 0.90 but above 0.80:
\* no fuzzy match is returned
C7_Witness ==
    /\ IsFind /\ Supported(call.state_abbr)
    /\ call.via /= "fuzzy" /\ ~HasExact
    /\ \E i \in 1..Len(CallSpecific) : 10 * CallScore(i).num >= 8 * CallScore(i).den

\* the first key, in insertion order, whose score no other key exceeds
FirstBest ==
    CHOOSE i \in 1..Len(CallSpecific) :
        /\ \A j \in 1..Len(CallSpecific) : ~ScoreGreater(CallScore(j), CallScore(i))
        /\ \A j \in 1..(i - 1) : ScoreGreater(CallScore(i), CallScore(j))

\* C8: a fuzzy match is the entry of a key with the greatest score among the
\* state's keys, and of the first such key in insertion order when several
\* share that score.
C8_FuzzyMaxFirst ==
    (IsFind /\ call.via = "fuzzy") => call.entry = <<CallSpecific[FirstBest][2]>>

\* a fuzzy hit where two keys with different entries share the greatest score
C8_Witness ==
    /\ IsFind /\ call.via = "fuzzy"
    /\ \E i, j \in 1..Len(CallSpecific) :
          /\ i < j
          /\ CallSpecific[i][2] /= CallSpecific[j][2]
          /\ CallScore(i) = CallScore(j)
          /\ \A k \in 1..Len(CallSpecific) : ~ScoreGreater(CallScore(k), CallScore(i))

\* C9: for a supported state a call of find ends in exactly one of the exact,
\* fuzzy, rest and all returns, each with an entry, or in the
\* NoLocalityMapping failure, with none; this holds for an empty name, for a
\* name that is no string and for a state without specific entries.
C9_FindOutcomes ==
    (IsFind /\ Supported(call.state_abbr)) =>
        \/ call.via \in {"exact", "fuzzy", "rest", "all"} /\ Len(call.entry) = 1
        \/ call.via = "NoLocalityMapping" /\ call.entry = <<>>

\* a name that is no string, for a state with neither specific, rest nor all
C9_Witness ==
    /\ IsFind /\ Supported(call.state_abbr)
    /\ ~call.county_name.isstr
    /\ CallSpecific = <<>> /\ ~HasRest /\ ~HasAll
    /\ call.via = "NoLocalityMapping"

\* C10: find fails with UnsupportedState exactly when the abbreviation is no
\* key of STATE_ABBR_TO_NAME, whatever the index holds and whatever the name.
C10_UnsupportedState ==
    IsFind => (call.via = "UnsupportedState" <=> ~Supported(call.state_abbr))

\* an unsupported abbreviation, asked of an index that holds entries
C10_Witness ==
    /\ IsFind /\ call.via = "UnsupportedState"
    /\ LOCALITY_LOOKUP.state_specific /= <<>> /\ LOCALITY_LOOKUP.state_rest /= <<>>

\* the result of find for another raw name is that of the call
SameResult(found) == found.via = call.via /\ found.entry = call.entry

\* C12: two raw county names with the same key get the same result from find
\* on every index and state, the same entry by the same return statement or
\* the same raise statement; "St. Johns" and "SAINT JOHNS" have the same key.
C12_SameKeySameResult ==
    /\ _normalize_county_name(PyStr("St. Johns")) = _normalize_county_name(PyStr("SAINT JOHNS"))
    /\ IsFind =>
          \A other \in NameInputs :
              _normalize_county_name(other) = CallKey =>
                  SameResult(find(LOCALITY_LOOKUP, call.state_abbr, other))

\* "St. Johns" is found by its key in a row that spells it SAINT JOHNS, and so
\* is "SAINT JOHNS"
C12_Witness ==
    /\ IsFind /\ call.county_name = PyStr("St. Johns")
    /\ call.via = "exact" /\ call.entry[1].locality_name = "KEYS"
    /\ find(LOCALITY_LOOKUP, call.state_abbr, PyStr("SAINT JOHNS")).via = "exact"

(***************************************************************************)
(* Properties of get_medicare_price (specification Spec)                   *)
(***************************************************************************)
IsPrice == call.op = "get_medicare_price"
PipelineSteps == <<"_select_county", "_get_county_name", "find", "_fetch_gpci", "_fetch_rvu">>
InputErrors == {"InvalidInput", "InvalidZip"}
\* the errors each step raises
StepErrors ==
    [s \in {PipelineSteps[i] : i \in 1..Len(PipelineSteps)} |->
        CASE s = "_select_county" -> {"ZipNotFound"}
          [] s = "_get_county_name" -> {"CountyCodeNotFound"}
          [] s = "find" -> {"UnsupportedState", "NoLocalityMapping"}
          [] s = "_fetch_gpci" -> {"GpciNotFound"}
          [] s = "_fetch_rvu" -> {"RvuNotFound"}]
HasKey(items, key) == \E i \in 1..Len(items) : items[i][1] = key
ValueOf(items, key) == items[CHOOSE i \in 1..Len(items) : items[i][1] = key][2]
\* the ZIP key and the code key of the call, and the rows of the ZIP
CallZip == ZFill(StrStrip(call.zip_code), 5)
CallCode == StrUpper(StrStrip(call.cpt_code))
CallGroup == ZipGroup(ZIP_TO_COUNTY, CallZip)
CallGpciKey == <<call.locality[1].state_abbr, call.locality[1].locality_number>>

\* C2: the steps run in the order county selection, county name, locality,
\* GPCI, RVU; a call that fails stops at the first step that fails, reports
\* that step's error and returns no price; a price is returned only when
\* every step found its row.
C2_FirstFailingStep ==
    IsPrice =>
        /\ call.steps = SubSeq(PipelineSteps, 1, Len(call.steps))
        /\ call.error = "" => (call.steps = PipelineSteps /\ Len(call.price) = 1)
        /\ call.error /= "" => (call.price = <<>> /\ call.final_price = <<>>)
        /\ (call.error /= "" /\ call.steps /= <<>>) =>
              call.error \in StepErrors[call.steps[Len(call.steps)]]
        /\ (call.error /= "" /\ call.steps = <<>>) => call.error \in InputErrors
        /\ (call.steps /= <<>> /\ CallGroup = <<>>) => call.error = "ZipNotFound"
        /\ Len(call.steps) >= 2 =>
              /\ CallGroup /= <<>>
              /\ HasKey(COUNTY_CODE_TO_NAME, call.county_code)
                    <=> call.error /= "CountyCodeNotFound"
        /\ Len(call.steps) >= 4 =>
              /\ Len(call.locality) = 1
              /\ HasKey(GPCI_LOOKUP, CallGpciKey) <=> call.error /= "GpciNotFound"
        /\ Len(call.steps) >= 5 =>
              /\ Len(call.gpci) = 1
              /\ HasKey(RVU_LOOKUP, CallCode) <=> call.error /= "RvuNotFound"

\* the code is unknown and the GPCI row is missing: GpciNotFound is reported
C2_Witness ==
    /\ IsPrice /\ call.error = "GpciNotFound"
    /\ ~HasKey(RVU_LOOKUP, CallCode)

\* C3 as the specification states it: an unrounded amount that is exactly a
\* half cent is returned as the next higher cent.
C3_RoundHalfUp ==
    (IsPrice /\ call.error = "" /\ IsHalfCent(call.final_price[1])) =>
        call.price[1] = CentsOf(call.final_price[1]).floor + 1

\* C3, amended: the price is the amount in whole cents nearest to the
\* unrounded double; an amount that is exactly a half cent goes to the
\* neighbour whose number of cents is even, up or down.
C3_RoundHalfEven ==
    (IsPrice /\ call.error = "") =>
        LET x == call.final_price[1]
            lower == CentsOf(x).floor
            nearest == IF CentsOf(x).cmp > 0 THEN {lower + 1}
                       ELSE IF CentsOf(x).cmp < 0 THEN {lower}
                       ELSE {c \in {lower, lower + 1} : c % 2 = 0}
        IN  x /= ZeroDouble => call.price[1] \in nearest

\* 7.5 * 32.35 = 242.625 exactly: the price is 242.62
C3_Witness ==
    /\ IsPrice /\ call.error = ""
    /\ IsHalfCent(call.final_price[1])
    /\ call.price[1] = CentsOf(call.final_price[1]).floor

\* C4: on success the unrounded amount is the weighted sum times 32.35, with
\* the RVUs of the normalized code and the GPCIs stored under the state and
\* locality number of the entry that find returns for the selected county.
C4_UnroundedAmount ==
    (IsPrice /\ call.error = "") =>
        /\ HasKey(COUNTY_CODE_TO_NAME, call.county_code)
        /\ call.county_name = <<ValueOf(COUNTY_CODE_TO_NAME, call.county_code)>>
        /\ call.locality = find(LookupOf(Store), call.state_abbr, call.county_name[1]).entry
        /\ HasKey(GPCI_LOOKUP, CallGpciKey) /\ HasKey(RVU_LOOKUP, CallCode)
        /\ call.final_price =
              <<TimesConversionFactor(WeightedSum(ValueOf(RVU_LOOKUP, CallCode),
                                                  ValueOf(GPCI_LOOKUP, CallGpciKey)))>>

\* a price for a locality that is not the first of its state in the GPCI file
C4_Witness ==
    /\ IsPrice /\ call.error = ""
    /\ \E i \in 1..Len(GPCI_LOOKUP) :
          /\ GPCI_LOOKUP[i][1][1] = CallGpciKey[1]
          /\ GPCI_LOOKUP[i][1] /= CallGpciKey
          /\ GPCI_LOOKUP[i][2] /= ValueOf(GPCI_LOOKUP, CallGpciKey)

HasNonDigit(s) == \E i \in 1..Len(s) : At(s, i) \notin DigitSet
RejectedInput == call.error \in InputErrors /\ call.steps = <<>>
\* the call went on to the tables with the trimmed ZIP padded to 5 digits
LookedUp ==
    /\ call.error \notin InputErrors /\ call.steps /= <<>>
    /\ call.normalized_zip = CallZip
    /\ call.error = "ZipNotFound" <=> CallGroup = <<>>

\* C5 as the claim states it: the calls rejected are those with an empty
\* code, an empty zip or a non-digit in the trimmed zip; every other call
\* looks up the padded zip.
C5_RejectsNonDigit ==
    IsPrice =>
        IF call.cpt_code = "" \/ call.zip_code = "" \/ HasNonDigit(StrStrip(call.zip_code))
        THEN RejectedInput ELSE LookedUp

\* C5, amended: a zip that is empty after trimming is rejected as well.
C5_RejectsBlankOrNonDigit ==
    IsPrice =>
        IF \/ call.cpt_code = "" \/ call.zip_code = ""
           \/ StrStrip(call.zip_code) = "" \/ HasNonDigit(StrStrip(call.zip_code))
        THEN RejectedInput ELSE LookedUp

\* a zip of blanks only is rejected before any table is read
C5_Witness ==
    /\ IsPrice /\ call.cpt_code /= "" /\ call.zip_code /= ""
    /\ StrStrip(call.zip_code) = "" /\ RejectedInput

SelectedRow(i) ==
    /\ CallGroup[i].COUNTY = call.county_code
    /\ CallGroup[i].USPS_ZIP_PREF_STATE = call.state_abbr
HasRatio(i) == CallGroup[i].RES_RATIO /= NaN
IsMaxRatio(i) ==
    /\ HasRatio(i)
    /\ \A j \in 1..Len(CallGroup) :
          HasRatio(j) => CallGroup[j].RES_RATIO <= CallGroup[i].RES_RATIO
SelectCountyRan == IsPrice /\ call.steps /= <<>>

\* C6 as the claim states it: the row selected has the greatest ratio of the
\* ZIP's rows and, of several such rows, is the first in the table's order;
\* a ZIP without rows fails with ZipNotFound.
C6_FirstOfMaxRatio ==
    (SelectCountyRan /\ \A i \in 1..Len(CallGroup) : HasRatio(i)) =>
        IF CallGroup = <<>> THEN call.error = "ZipNotFound"
        ELSE /\ call.error /= "ZipNotFound"
             /\ \E i \in 1..Len(CallGroup) :
                   /\ SelectedRow(i) /\ IsMaxRatio(i)
                   /\ \A j \in 1..(i - 1) : ~IsMaxRatio(j)

\* C6, amended: the row selected is one of the rows with the greatest ratio
\* among the ZIP's rows that have a ratio (the first row when none has);
\* which of several rows with the greatest ratio is not determined.
C6_SomeMaxRatio ==
    SelectCountyRan =>
        IF CallGroup = <<>> THEN call.error = "ZipNotFound"
        ELSE /\ call.error /= "ZipNotFound"
             /\ \E i \in 1..Len(CallGroup) :
                   /\ SelectedRow(i)
                   /\ IsMaxRatio(i) \/ (i = 1 /\ \A j \in 1..Len(CallGroup) : ~HasRatio(j))

\* two rows share the greatest ratio and the second of them is selected
C6_Witness ==
    /\ SelectCountyRan /\ CallGroup /= <<>>
    /\ \E i, j \in 1..Len(CallGroup) :
          i < j /\ IsMaxRatio(i) /\ IsMaxRatio(j) /\ SelectedRow(j) /\ ~SelectedRow(i)

\* the record of a call made on these tables with these arguments
RecordOf(store, cpt_code, zip_code) ==
    [op |-> "get_medicare_price", cpt_code |-> cpt_code, zip_code |-> zip_code]
        @@ get_medicare_price(store, cpt_code, zip_code)

Replayed(cpt_code, zip_code) == RecordOf(Store, cpt_code, zip_code)

\* C16: get_medicare_price is deterministic: whatever call a step makes, the
\* call made before it returns, made again before the step or after it, the
\* amount or the failure it returned, and the call of the step returns the
\* same when it is made once more.
C16_Deterministic ==
    [][\A cpt_code \in CodeInputs, zip_code \in ZipInputs :
          /\ (IsPrice /\ call.cpt_code = cpt_code /\ call.zip_code = zip_code) =>
                \A before \in {Store}, after \in {Store'} :
                    /\ RecordOf(before, cpt_code, zip_code) = call
                    /\ RecordOf(after, cpt_code, zip_code) = call
          /\ (IsPrice' /\ call'.cpt_code = cpt_code /\ call'.zip_code = zip_code) =>
                \A after \in {Store'} : RecordOf(after, cpt_code, zip_code) = call']_vars

\* a call has returned an amount on tables where the same code gives a
\* failure for another ZIP and another amount for a third
C16_Witness ==
    /\ IsPrice /\ call.price /= <<>>
    /\ \E zip_code \in ZipInputs : Replayed(call.cpt_code, zip_code).error = "ZipNotFound"
    /\ \E zip_code \in ZipInputs :
          LET other == Replayed(call.cpt_code, zip_code)
          IN  other.price /= <<>> /\ other.price /= call.price

FindReached(steps) == \E i \in 1..Len(steps) : steps[i] = "find"

\* C17: a call of get_medicare_price, whether it returns or fails, and the
\* find within it, leave the specific, rest and all maps and the GPCI, RVU,
\* ZIP and county tables as they were; a state without specific entries has
\* no entry in the specific map after it has been queried.
C17_ReadsOnly ==
    [][IsPrice' =>
          /\ tables' = tables
          /\ \A i \in 1..Len(STATE_ABBR_TO_NAME) :
                STATE_ABBR_TO_NAME[i][2] \notin DOMAIN LOCALITY_LOOKUP.state_specific
                    => STATE_ABBR_TO_NAME[i][2] \notin DOMAIN LOCALITY_LOOKUP'.state_specific]_vars

\* find has run on the module's index for a state that has no specific
\* entries, and the call has failed later on
C17_Witness ==
    /\ IsPrice /\ ~USE_DATABASE /\ FindReached(call.steps) /\ call.locality /= <<>>
    /\ call.locality[1].state_name \notin DOMAIN LOCALITY_LOOKUP.state_specific
    /\ call.error /= ""

(***************************************************************************)
(* Properties of concurrent calls (specification SpecThreads)              *)
(***************************************************************************)
Done(frame) == frame.pc = "done"

\* the call of a frame, run alone on these tables
Alone(store, frame) == get_medicare_price(store, frame.cpt_code, frame.zip_code)

IsNormalize == call.op = "_normalize_county_name"
IsClassify == call.op = "_classify_county_scope"
Contains(s, p) == \E i \in 1..(Len(s) - Len(p) + 1) : SubSeq(s, i, i + Len(p) - 1) = p
Begins(s, p) == Len(p) <= Len(s) /\ SubSeq(s, 1, Len(p)) = p
Ends(s, p) == Len(p) <= Len(s) /\ SubSeq(s, Len(s) - Len(p) + 1, Len(s)) = p
\* the key of the key of the call
KeyOfKey == _normalize_county_name(PyStr(call.key))

\* C11 (as stated): the key of a key is that key, for every name.
C11_Idempotent == IsNormalize => KeyOfKey = call.key

\* C11 (amended): the key of a key is that key exactly when the key contains
\* neither SAINT nor CNTY; a key that contains one of them is folded again.
C11_IdempotentUnlessFolded ==
    IsNormalize =>
        (KeyOfKey = call.key <=> (~Contains(call.key, "SAINT") /\ ~Contains(call.key, "CNTY")))

\* a name whose key still holds SAINT, and a second normalization that folds it
C11_Witness ==
    /\ IsNormalize /\ call.name.isstr
    /\ Contains(call.key, "SAINT") /\ KeyOfKey /= call.key

\* the listed suffixes that the value ends with
MatchingSuffixes(value) ==
    {i \in 1..Len(suffixes) : Ends(value, suffixes[i])}
WithoutSuffix(value, i) == SubSeq(value, 1, Len(value) - Len(suffixes[i]))
\* the text is a run of listed suffixes, each listed after the one on its right
RECURSIVE SuffixChain(_, _)
SuffixChain(text, lo) ==
    \/ text = ""
    \/ \E i \in MatchingSuffixes(text) : i >= lo /\ SuffixChain(WithoutSuffix(text, i), i + 1)
\* what the suffix loop of the call removed
CallRemoved == SubSeq(call.folded, Len(call.stripped) + 1, Len(call.folded))

\* C19 (as stated): the suffix loop removes the first listed suffix that the
\* name ends with, and nothing more.
C19_AtMostOneSuffix ==
    (IsNormalize /\ call.name.isstr) =>
        LET matching == MatchingSuffixes(call.folded)
            first == CHOOSE i \in matching : \A j \in matching : i <= j
        IN  call.stripped = IF matching = {} THEN call.folded
                            ELSE WithoutSuffix(call.folded, first)

\* C19 (amended): the suffix loop tests each suffix once, in the listed order,
\* against what is left, and removes every one that matches: what it removes
\* is a run of suffixes at the end of the name, empty exactly when the name
\* ends with no listed suffix; a name ending in " ISLAND COUNTY" loses both
\* suffixes, one ending in " COUNTY ISLAND" only " ISLAND".
C19_EveryMatchingSuffix ==
    (IsNormalize /\ call.name.isstr) =>
        /\ call.folded = call.stripped \o CallRemoved
        /\ SuffixChain(CallRemoved, 1)
        /\ CallRemoved = "" <=> MatchingSuffixes(call.folded) = {}
        /\ Ends(call.folded, " ISLAND COUNTY") => CallRemoved = " ISLAND COUNTY"
        /\ Ends(call.folded, " COUNTY ISLAND") => CallRemoved = " ISLAND"

\* a name that ends in " ISLAND COUNTY" and loses both suffixes
C19_Witness ==
    /\ IsNormalize /\ call.name.isstr
    /\ CallRemoved = " ISLAND COUNTY"
    /\ call.key = "ROCK"

\* the case-folded text of the call
CallUpper == StrUpper(call.text)

\* C13: the scope of a text is decided by the first of these tests that
\* succeeds on the upper-cased text: contains ALL OTHER COUNTIES, rest;
\* contains ALL COUNTY EQUIVALENTS, all; begins with ALL COUNTIES and contains
\* EXCEPT, rest; begins with ALL COUNTIES, all; begins with ALL COUNTY, all;
\* none, specific.  Every text gets one of the three scopes.
C13_ScopePrecedence ==
    IsClassify =>
        LET other == Contains(CallUpper, "ALL OTHER COUNTIES")
            equivalents == Contains(CallUpper, "ALL COUNTY EQUIVALENTS")
            counties == Begins(CallUpper, "ALL COUNTIES")
            except == Contains(CallUpper, "EXCEPT")
            county == Begins(CallUpper, "ALL COUNTY")
        IN  /\ call.scope \in {"rest", "all", "specific"}
            /\ other => call.scope = "rest"
            /\ (~other /\ equivalents) => call.scope = "all"
            /\ (~other /\ ~equivalents /\ counties /\ except) => call.scope = "rest"
            /\ (~other /\ ~equivalents /\ counties /\ ~except) => call.scope = "all"
            /\ (~other /\ ~equivalents /\ ~counties /\ county) => call.scope = "all"
            /\ (~other /\ ~equivalents /\ ~counties /\ ~county) => call.scope = "specific"

\* a text in mixed case that passes the first test and the second: it is rest
C13_Witness ==
    /\ IsClassify /\ call.text /= CallUpper
    /\ Contains(CallUpper, "ALL OTHER COUNTIES")
    /\ Contains(CallUpper, "ALL COUNTY EQUIVALENTS")
    /\ call.scope = "rest"

IsParse == call.op = "_parse_county_segments"
\* the segments of the call that name a county, in order
NamingParts == SelectSeq(call.parts, LAMBDA part : part.counties \notin {"", " ", ", / & and"})
\* the states that an override without a comma names
OverrideStates(override) ==
    CASE override = "California" -> <<"CALIFORNIA">>
      [] override \in {"Iowa/Ohio", "Iowa & Ohio"} -> <<"IOWA", "OHIO">>
AbbrOf(state_name) ==
    STATE_ABBR_TO_NAME[CHOOSE i \in 1..Len(STATE_ABBR_TO_NAME) :
                          STATE_ABBR_TO_NAME[i][2] = state_name][1]
\* the entries of state_name in the index that the call built
CallRegistered(state_name) ==
    IF state_name \in DOMAIN call.index.state_specific
    THEN call.index.state_specific[state_name] ELSE <<>>

TwoStateOverrides == {"Iowa, Ohio", "Iowa/Ohio", "Iowa & Ohio"}

\* C21: the states of an "IN <states>" override are the text after IN split
\* on "/", "," and "&": a segment that ends in "IN Iowa, Ohio", "IN Iowa/Ohio"
\* or "IN Iowa & Ohio" gives the states IOWA, OHIO, and none of its county
\* tokens keeps the " IN ..." text.
C21_OverrideForms ==
    IsParse =>
        \A k \in 1..Len(NamingParts) :
            NamingParts[k].override \in TwoStateOverrides =>
                /\ k <= Len(call.segments)
                /\ call.segments[k].states = <<"IOWA", "OHIO">>
                /\ \A c \in 1..Len(call.segments[k].counties) :
                      ~Contains(StrUpper(call.segments[k].counties[c]), " IN ")

\* the whole word AND, in any case, at position i of a text
WordAndAt(text, i) ==
    /\ i + 2 <= Len(text)
    /\ StrUpper(SubSeq(text, i, i + 2)) = "AND"
    /\ (i = 1 \/ ~IsWordChar(At(text, i - 1)))
    /\ (i + 3 > Len(text) \/ ~IsWordChar(At(text, i + 3)))

IsCountyToken(token) ==
    /\ token /= "" /\ At(token, 1) /= " " /\ At(token, Len(token)) /= " "
    /\ \A i \in 1..Len(token) : At(token, i) \notin {",", "/", "&"} /\ ~WordAndAt(token, i)

\* C22: the county tokens of a segment are the pieces between ",", "/", "&"
\* and the whole word AND (in any case, never part of a longer word), trimmed,
\* without the empty ones; a segment without a token gives no pair, so no pair
\* has an empty county list.
C22_CountyTokens ==
    IsParse =>
        /\ Len(call.segments) = Len(NamingParts)
        /\ \A k \in 1..Len(call.segments) :
              /\ call.segments[k].counties /= <<>>
              /\ \A c \in 1..Len(call.segments[k].counties) :
                    IsCountyToken(call.segments[k].counties[c])
              /\ NamingParts[k].counties = "Ada/Bay & Lee, Anderson AND Ely and Coos" =>
                    call.segments[k].counties
                        = <<"Ada", "Bay", "Lee", "Anderson", "Ely", "Coos">>

\* a row of two segments, one made of separators only and one of six tokens:
\* one pair
C22_Witness ==
    /\ IsParse /\ Len(call.parts) = 2 /\ Len(call.segments) = 1
    /\ \E k \in 1..2 : call.parts[k].counties = ", / & and"
    /\ Len(call.segments[1].counties) = 6

\* C25: a code of whitespace only is rejected as invalid input like an empty
\* code, so a call that reaches the table lookups has a non-empty
\* normalized code (trimmed, uppercased) as its RVU key.
C25_BlankCodeRejected ==
    IsPrice =>
        /\ StrStrip(call.cpt_code) = "" => RejectedInput
        /\ call.steps /= <<>> =>
              /\ call.normalized_cpt = StrUpper(StrStrip(call.cpt_code))
              /\ call.normalized_cpt /= ""

IsRvuLoad == call.op = "_load_rvu_lookup"

\* the rows of the file that carry the code and no modifier, in file order
EmptyModifierRows(raw, code) ==
    SelectSeq(raw, LAMBDA row : StrStrip(row.HCPCS) = code /\ StrStrip(row.MOD) = "")

CompleteRvu(row) == NaN \notin {row.PW_RVU, row.PE_RVU, row.MP_RVU}

RvuOf(row) == [PW_RVU |-> row.PW_RVU, PE_RVU |-> row.PE_RVU, MP_RVU |-> row.MP_RVU]

RecordsOf(table, code) == {i \in 1..Len(table) : table[i][1] = code}

\* the codes of the file and the codes that are priced
RvuCodes(raw) == {StrStrip(raw[i].HCPCS) : i \in 1..Len(raw)} \cup RvuCodeInputs

\* the call of a code that the table lacks fails with RvuNotFound, that of
\* a code that it holds is computed from its record
PricedFrom(code) ==
    code \in RvuCodeInputs =>
        IF RecordsOf(call.table, code) = {} THEN call.price[code].error = "RvuNotFound"
        ELSE /\ call.price[code].error = ""
             /\ \A i \in RecordsOf(call.table, code) : call.price[code].rvu = <<call.table[i][2]>>

\* C26 as the claim states it: a code has at most one record, the record is
\* that of the first row of the code without a modifier, and a code that
\* only rows with a modifier carry is absent and is priced with RvuNotFound.
C26_FirstEmptyModifierRow ==
    IsRvuLoad => \A code \in RvuCodes(call.raw) :
        /\ Cardinality(RecordsOf(call.table, code)) <= 1
        /\ \A i \in RecordsOf(call.table, code) :
              /\ EmptyModifierRows(call.raw, code) /= <<>>
              /\ call.table[i][2] = RvuOf(EmptyModifierRows(call.raw, code)[1])
        /\ EmptyModifierRows(call.raw, code) = <<>> => RecordsOf(call.table, code) = {}
        /\ PricedFrom(code)

\* C26, amended: the record of a code is that of its first row without a
\* modifier among those whose three RVUs are numbers; a code without such
\* a row (or an empty code) is absent and is priced with RvuNotFound.
C26_FirstCompleteRow ==
    IsRvuLoad => \A code \in RvuCodes(call.raw) :
        LET rows == SelectSeq(EmptyModifierRows(call.raw, code), CompleteRvu)
        IN  /\ Cardinality(RecordsOf(call.table, code)) <= 1
            /\ \A i \in RecordsOf(call.table, code) :
                  rows /= <<>> /\ code /= "" /\ call.table[i][2] = RvuOf(rows[1])
            /\ (rows = <<>> \/ code = "") => RecordsOf(call.table, code) = {}
            /\ (rows /= <<>> /\ code /= "") => RecordsOf(call.table, code) /= {}
            /\ PricedFrom(code)

\* a code whose first row without a modifier lacks an RVU and whose second
\* one is complete, after a row with a modifier; another code that only a
\* row with a modifier carries
C26_Witness ==
    /\ IsRvuLoad
    /\ call.raw = <<RvuRow("99285", "26", 8, 4, 0), RvuRow("99285", "", 6, NaN, 1),
                    RvuRow(" 99285", " ", 16, 10, 4)>>
    /\ call.table = << <<"99285", [PW_RVU |-> 16, PE_RVU |-> 10, MP_RVU |-> 4]>> >>
    /\ call.price["99285"].error = "" /\ call.price["G0008"].error = "RvuNotFound"

\* the LocalityLookup objects constructed when the module has been loaded
\* (line 462 without a database, none with one) and by the calls so far in
\* a run of one call
BuildsAtLoad == IF USE_DATABASE THEN 0 ELSE 1

\* C27: the index is built once, before the first price computation, and
\* no get_medicare_price call constructs an index: after a call the number of
\* builds is still one.
C27_BuiltOnce == IsPrice => (BuildsAtLoad = 1 /\ BuildsAtLoad + call.builds = 1)

\* the database that create_database.py makes of the files of a module
\* loaded without one; of the rows of the ZIP with the greatest ratio the
\* query returns the one numbered first
DatabaseOf(store, zip_code, first) ==
    [store EXCEPT !.USE_DATABASE = TRUE,
                  !.ZIP_TO_COUNTY = DropMissingRatio(@),
                  !.county_locality = migrate_county_locality(@),
                  !.LOCALITY_LOOKUP = LocalityLookup(<<>>),
                  !.first_row = [zip \in ZipKeys(DropMissingRatio(store.ZIP_TO_COUNTY)) |->
                                    IF zip = zip_code THEN first ELSE 1]]

\* what the steps of a call and the call return or raise
Returned(out) ==
    [error |-> out.error, steps |-> out.steps, county_code |-> out.county_code,
     state_abbr |-> out.state_abbr, county_name |-> out.county_name,
     locality |-> out.locality, gpci |-> out.gpci, rvu |-> out.rvu, price |-> out.price]

\* C28: a call on the files and the same call on the database made of those
\* files return the same at every step (county, county name, locality, GPCI,
\* RVU) and the same price or the same kind of error, for the same choice
\* among rows of equal ratio.
C28_PathsAgree ==
    (IsPrice /\ ~USE_DATABASE /\ call.steps /= <<>>) =>
        LET zip_code == call.normalized_zip
            rows == ZipGroup(DropMissingRatio(ZIP_TO_COUNTY), zip_code)
        IN  \E first \in MayComeFirst(rows) \cup {1} :
                Returned(get_medicare_price(DatabaseOf(Store, zip_code, first),
                                            call.cpt_code, call.zip_code))
                = Returned(call)

\* the entry carries the name of the state and the abbreviation that the
\* state table gives that name
EntryOfState(entry, state_name) ==
    /\ entry.state_name = state_name
    /\ \E i \in 1..Len(STATE_ABBR_TO_NAME) :
          STATE_ABBR_TO_NAME[i] = <<entry.state_abbr, state_name>>

\* C29: every entry of the index is that of the state whose slot holds it:
\* the entries of specific[s], rest[s] and all[s] have the name s and the
\* abbreviation of s; so the entry that a find returns has the abbreviation
\* that was asked for.
C29_EntriesInSlot ==
    /\ \A state_name \in DOMAIN LOCALITY_LOOKUP.state_specific :
          \A k \in 1..Len(LOCALITY_LOOKUP.state_specific[state_name]) :
              EntryOfState(LOCALITY_LOOKUP.state_specific[state_name][k][2], state_name)
    /\ \A state_name \in DOMAIN LOCALITY_LOOKUP.state_rest :
          EntryOfState(LOCALITY_LOOKUP.state_rest[state_name], state_name)
    /\ \A state_name \in DOMAIN LOCALITY_LOOKUP.state_all :
          EntryOfState(LOCALITY_LOOKUP.state_all[state_name], state_name)
    /\ IsFind => \A i \in 1..Len(call.entry) : call.entry[i].state_abbr = call.state_abbr

\* a find answered from the specific map of its state, on an index that
\* holds an entry of another state as well
C29_Witness ==
    /\ IsFind /\ call.state_abbr = "FL" /\ call.via = "exact"
    /\ call.entry = <<LocalityEntry("FLORIDA", "FL", "5", "KEYS", "09102")>>
    /\ "PUERTO RICO" \in DOMAIN LOCALITY_LOOKUP.state_all

\* the county keys of the specific maps of the index
SpecificKeys ==
    UNION {{LOCALITY_LOOKUP.state_specific[state_name][k][1] :
                k \in 1..Len(LOCALITY_LOOKUP.state_specific[state_name])} :
            state_name \in DOMAIN LOCALITY_LOOKUP.state_specific}

\* C30: no key of a specific map is empty and every key is made of the
\* characters A-Z and 0-9 only: a county token that normalizes to the empty
\* string is not registered.  So a find whose county name normalizes to the
\* empty string is not answered by an exact or a fuzzy match: in a known
\* state it ends on rest, on all or on NoLocalityMapping.
C30_NoEmptyKey ==
    /\ \A key \in SpecificKeys :
          /\ key /= ""
          /\ \A i \in 1..Len(key) : At(key, i) \in UpperLetterSet \cup DigitSet
    /\ (IsFind /\ _normalize_county_name(call.county_name) = "") =>
          /\ call.via \notin {"exact", "fuzzy"}
          /\ (\E i \in 1..Len(STATE_ABBR_TO_NAME) :
                  STATE_ABBR_TO_NAME[i][1] = call.state_abbr) =>
                call.via \in {"rest", "all", "NoLocalityMapping"}

\* an index of a row with a token that normalizes to the empty string
\* ("--") among its counties, asked for a name that is empty
C30_Witness ==
    /\ IsFind /\ call.state_abbr = "FL" /\ call.county_name = PyStr("")
    /\ call.via = "NoLocalityMapping"
    /\ county_locality = <<RowDade>>
    /\ Contains(RowDade.Counties.s, ", --,")
    /\ SpecificKeys = {"DADE", "STJOHNS"}

IsLocalityNumber == call.op = "_normalize_locality_number"

\* the decimal numeral of a number below 100, without leading zeros
Numeral(n) ==
    IF n < 10 THEN SubSeq("0123456789", n + 1, n + 1)
    ELSE SubSeq("0123456789", (n \div 10) + 1, (n \div 10) + 1)
         \o SubSeq("0123456789", (n % 10) + 1, (n % 10) + 1)

\* the text writes the integer n: blanks around it, leading zeros, a sign,
\* a fraction of zeros
Denotes(text, n) ==
    \E before, after \in {"", " "}, sign \in {"", "+"}, zeros \in {"", "0", "00"},
       fraction \in {"", ".", ".0", ".00"} :
        text = before \o sign \o zeros \o Numeral(n) \o fraction \o after

\* C24: the texts that write the same integer (leading zeros, blanks around,
\* a ".0" fraction: "05", " 5 ", "5.0") normalize to the one numeral of that
\* integer, without leading zeros; the number held by the entry of a row and
\* the number in the key of a GPCI row are that numeral, so they agree; and
\* normalizing a normalized number changes nothing.
C24_CanonicalNumber ==
    IsLocalityNumber =>
        /\ \A n \in 0..99 :
              Denotes(call.value, n) =>
                  /\ call.result = [ok |-> TRUE, val |-> Numeral(n)]
                  /\ call.entry_number = <<Numeral(n)>>
                  /\ call.gpci_number = <<Numeral(n)>>
        /\ call.result.ok =>
              _normalize_locality_number(PyStr(call.result.val)) = call.result

\* a number written with a blank, leading zeros and a fraction
C24_Witness ==
    /\ IsLocalityNumber /\ call.value = " 005.0"
    /\ call.result = [ok |-> TRUE, val |-> "5"]
    /\ call.entry_number = <<"5">> /\ call.gpci_number = <<"5">>

(***************************************************************************)
(* Properties of LocalityLookup._build (specification SpecBuild)           *)
(***************************************************************************)
Built == LOCALITY_LOOKUP.error = ""

\* the index of each row on its own: what the row claims
RowIndexes == [i \in 1..Len(county_locality) |-> LocalityLookup(<<county_locality[i]>>)]

Last(rows) == CHOOSE i \in rows : \A j \in rows : j <= i

KeysOf(items) == {items[i][1] : i \in 1..Len(items)}

IndexStates(index) ==
    DOMAIN index.state_specific \cup DOMAIN index.state_rest \cup DOMAIN index.state_all

BuildStates(single) ==
    IndexStates(LOCALITY_LOOKUP) \cup UNION {IndexStates(single[i]) : i \in DOMAIN single}

BuildKeys(single, state) ==
    KeysOf(SpecificOf(LOCALITY_LOOKUP, state))
        \cup UNION {KeysOf(SpecificOf(single[i], state)) : i \in DOMAIN single}

SpecificClaimants(single, state, key) ==
    {i \in DOMAIN single : ItemsGet(SpecificOf(single[i], state), key, 1) /= <<>>}

RestClaimants(single, state) == {i \in DOMAIN single : state \in DOMAIN single[i].state_rest}
AllClaimants(single, state) == {i \in DOMAIN single : state \in DOMAIN single[i].state_all}

\* the slot holds the entry of the last claimant, and nothing without one
SpecificIsLast(single, state, key, claimants) ==
    ItemsGet(SpecificOf(LOCALITY_LOOKUP, state), key, 1)
        = IF claimants = {} THEN <<>>
          ELSE ItemsGet(SpecificOf(single[Last(claimants)], state), key, 1)

RestIsLast(single, state, claimants) ==
    /\ state \in DOMAIN LOCALITY_LOOKUP.state_rest <=> claimants /= {}
    /\ claimants /= {} =>
          LOCALITY_LOOKUP.state_rest[state] = single[Last(claimants)].state_rest[state]

AllIsLast(single, state, claimants) ==
    /\ state \in DOMAIN LOCALITY_LOOKUP.state_all <=> claimants /= {}
    /\ claimants /= {} =>
          LOCALITY_LOOKUP.state_all[state] = single[Last(claimants)].state_all[state]

OneSlotPerKey(items) == \A i, j \in 1..Len(items) : items[i][1] = items[j][1] => i = j

LastWins(single) ==
    \A state \in BuildStates(single) :
        /\ \A key \in BuildKeys(single, state) :
              SpecificIsLast(single, state, key, SpecificClaimants(single, state, key))
        /\ RestIsLast(single, state, RestClaimants(single, state))
        /\ AllIsLast(single, state, AllClaimants(single, state))
        /\ OneSlotPerKey(SpecificOf(LOCALITY_LOOKUP, state))

\* C14: in the index built from a sequence of rows, specific[state][key] is
\* the entry of the last row in input order that claims the key for the
\* state, rest[state] and all[state] are the entries of the last rest-scoped
\* and the last all-scoped row that names the state, and a key has one slot
\* per state.
C14_LastWriteWins == Built => LastWins(RowIndexes)

DifferentClaims(single, state, key) ==
    \E i, j \in SpecificClaimants(single, state, key) :
        /\ i < j
        /\ SpecificOf(single[i], state) /= <<>>
        /\ ItemsGet(SpecificOf(single[i], state), key, 1)
              /= ItemsGet(SpecificOf(single[j], state), key, 1)

\* two rows claim DADE in FLORIDA with different localities, and a later row
\* has been built
C14_Witness ==
    /\ Built /\ Len(county_locality) = MaxBuildRows
    /\ DifferentClaims(RowIndexes, "FLORIDA", "DADE")

\* a numeral: an optional sign, digits, at most one point
IsNumeral(v) ==
    LET body == IF v /= "" /\ At(v, 1) \in {"+", "-"} THEN SubSeq(v, 2, Len(v)) ELSE v
    IN  /\ \E i \in 1..Len(body) : At(body, i) \in DigitSet
        /\ \A i \in 1..Len(body) : At(body, i) \in DigitSet \cup {"."}
        /\ \A i, j \in 1..Len(body) : (At(body, i) = "." /\ At(body, j) = ".") => i = j

BadNumber(row) ==
    ~row.LocalityNumber.isstr \/ ~IsNumeral(StrStrip(row.LocalityNumber.s))

KnownState(part) == ItemsGet(STATE_NAME_TO_ABBR, _normalize_state_name(part), 1) /= <<>>

\* the row with the unknown states of its label taken out
KnownStatesOnly(row) ==
    [row EXCEPT !.StateLabel =
        IF ~@.isstr THEN @
        ELSE PyStr(JoinTexts(SelectSeq(StrSplit(@.s, "/"), KnownState), "/"))]

RECURSIVE WithoutDefects(_)
WithoutDefects(rows) ==
    IF rows = <<>> THEN <<>>
    ELSE (IF BadNumber(Head(rows)) THEN <<>> ELSE <<KnownStatesOnly(Head(rows))>>)
         \o WithoutDefects(Tail(rows))

SameIndex(index, other) ==
    /\ index.state_specific = other.state_specific
    /\ index.state_rest = other.state_rest
    /\ index.state_all = other.state_all

\* C15: the construction never aborts on a defect of a row: a row whose
\* locality number is blank or not numeric is skipped, a state with no
\* abbreviation is skipped, and the index is the one the other rows and
\* states give on their own.
C15_DefectsSkipped ==
    /\ Built
    /\ SameIndex(LOCALITY_LOOKUP, LocalityLookup(WithoutDefects(county_locality)))

IsBuildStep == call.op = "_build"

\* the scope of the counties text of a row
RowScope(row) == _classify_county_scope(StrStrip(row.Counties.s))

\* the states that the label of a row names
LabelStates(row) ==
    LET parts == StrSplit(row.StateLabel.s, "/")
    IN  {_normalize_state_name(parts[i]) : i \in 1..Len(parts)}

\* what one iteration of the loop may have written, given the scope of its row
WritesOnly(scope, row, before, after) ==
    /\ scope = "rest" =>
          /\ after.state_specific = before.state_specific
          /\ after.state_all = before.state_all
          /\ \A state \in DOMAIN after.state_rest :
                state \in LabelStates(row) \/
                (state \in DOMAIN before.state_rest
                    /\ after.state_rest[state] = before.state_rest[state])
    /\ scope = "all" =>
          /\ after.state_specific = before.state_specific
          /\ after.state_rest = before.state_rest
          /\ \A state \in DOMAIN after.state_all :
                state \in LabelStates(row) \/
                (state \in DOMAIN before.state_all
                    /\ after.state_all[state] = before.state_all[state])
    /\ scope = "specific" =>
          /\ after.state_rest = before.state_rest
          /\ after.state_all = before.state_all

\* C23: a row writes to the one map of its scope: a rest-scoped row only to
\* rest[state] for the states of its label, an all-scoped row only to
\* all[state], a specific row only to the specific map; a rest or all row
\* leaves the specific map as it was even when its text names counties.  "All
\* Other Counties" for TEXAS is registered under rest["TEXAS"] and nowhere
\* else.
C23_OneMapPerRow ==
    [][(IsBuildStep' /\ Built') =>
          /\ \A before \in {LOCALITY_LOOKUP}, after \in {LOCALITY_LOOKUP'} :
                WritesOnly(RowScope(call'.row), call'.row, before, after)
          /\ call'.row = RowRestTexas =>
                /\ LOCALITY_LOOKUP'.state_rest["TEXAS"]
                      = LocalityEntry("TEXAS", "TX", "99", "REST OF TEXAS", "04412")
                /\ SpecificOf(LOCALITY_LOOKUP', "TEXAS") = SpecificOf(LOCALITY_LOOKUP, "TEXAS")
                /\ "TEXAS" \in DOMAIN LOCALITY_LOOKUP'.state_all
                      <=> "TEXAS" \in DOMAIN LOCALITY_LOOKUP.state_all]_vars

\* the rest of Florida "except Dade" has been registered after a row that
\* claims DADE: the specific map has DADE from that row only
C23_Witness ==
    /\ IsBuildStep /\ Built /\ call.row = RowRestKeys
    /\ Len(county_locality) = 2 /\ county_locality[1] = RowDade
    /\ LOCALITY_LOOKUP.state_rest["FLORIDA"].locality_number = "98"
    /\ DOMAIN LOCALITY_LOOKUP.state_all = {}
    /\ ItemsGet(SpecificOf(LOCALITY_LOOKUP, "FLORIDA"), "DADE", 1) /= <<>>

====
